---------------------------- MODULE Spec2Model ----------------------------
(***************************************************************************)
(* A model of Res-One (crate "resonant"): the fractal factory, the three   *)
(* distance-estimator fields and their colouring, the daily seed hash and  *)
(* the Resonant / UserState / AudioEngine objects that drive them.         *)
(*                                                                         *)
(* Numbers.  u32 values are pairs <<hi, lo>> of 16-bit limbs, so that the  *)
(* 32-bit wrap-around of the seed hash is computed and not assumed.  f32   *)
(* values are decimal floating-point numbers <<m, e>> = m * 10^e with a    *)
(* four-digit mantissa and the exponent range of f32; overflow gives an    *)
(* infinity, an invalid operation gives NaN, as in IEEE-754.  The format   *)
(* has less precision than f32 and the same range and special values.      *)
(***************************************************************************)
EXTENDS Integers, Sequences, FiniteSets, TLC

(***************************************************************************)
(* f32: representation                                                     *)
(***************************************************************************)
SpecialExp == 10 * 10 - 1

NaN == <<0, SpecialExp>>

PosInf == <<1, SpecialExp>>

NegInf == <<-1, SpecialExp>>

Zero == <<0, 0>>

\* The element of a one-element set.  Only({ e : x \in {v} }) is e with x standing for v:
\* a `let x = v` of the source, with v evaluated once.
Only(S) == CHOOSE y \in S : TRUE

Abs(n) == IF n < 0 THEN -n ELSE n

Sgn(n) == IF n < 0 THEN -1 ELSE IF n > 0 THEN 1 ELSE 0

Pow10(k) ==
    CASE k = 0 -> 1
      [] k = 1 -> 10
      [] k = 2 -> 100
      [] k = 3 -> 1000
      [] k = 4 -> 10000
      [] k = 5 -> 100000
      [] k = 6 -> 1000000
      [] k = 7 -> 10000000
      [] k = 8 -> 100000000
      [] k = 9 -> 1000000000

NumDigits(a) ==
    CASE a < 10 -> 1
      [] a >= 10 /\ a < 100 -> 2
      [] a >= 100 /\ a < 1000 -> 3
      [] a >= 1000 /\ a < 10000 -> 4
      [] a >= 10000 /\ a < 100000 -> 5
      [] a >= 100000 /\ a < 1000000 -> 6
      [] a >= 1000000 /\ a < 10000000 -> 7
      [] a >= 10000000 /\ a < 100000000 -> 8
      [] a >= 100000000 /\ a < 1000000000 -> 9
      [] a >= 1000000000 -> 10

IsNaN(x) == x = NaN

IsInf(x) == x = PosInf \/ x = NegInf

IsFinite(x) == x[2] # SpecialExp

FSign(x) == Sgn(x[1])

\* The largest finite f32 is about 3.402e38, the smallest positive one about 1.4e-45.
Pack(m, e) ==
    IF m = 0 THEN Zero
    ELSE IF e > 35 \/ (e = 35 /\ Abs(m) > 3402) THEN <<Sgn(m), SpecialExp>>
    ELSE IF e < -48 THEN Zero
    ELSE <<m, e>>

\* m * 10^e rounded to four significant digits (round half away from zero).
Norm(m, e) ==
    IF m = 0 THEN Zero
    ELSE Only({ IF d <= 4 THEN Pack(m * Pow10(4 - d), e - (4 - d))
                ELSE Only({ IF q = 10000 THEN Pack(Sgn(m) * 1000, e + d - 3)
                            ELSE Pack(Sgn(m) * q, e + d - 4)
                            : q \in { (Abs(m) \div p) + (IF 2 * (Abs(m) % p) >= p THEN 1 ELSE 0)
                                      : p \in {Pow10(d - 4)} } })
                : d \in {NumDigits(Abs(m))} })

\* A decimal literal of the source: Dec(15, -1) is 1.5.
Dec(m, e) == Norm(m, e)

\* `n as f32` for an integer n.
FromInt(n) == Norm(n, 0)

FNeg(x) == IF IsNaN(x) THEN NaN ELSE <<-x[1], x[2]>>

FAbs(x) == IF IsNaN(x) THEN NaN ELSE <<Abs(x[1]), x[2]>>

FMul(x, y) ==
    IF IsNaN(x) \/ IsNaN(y) THEN NaN
    ELSE IF IsInf(x) \/ IsInf(y)
         THEN (IF x = Zero \/ y = Zero THEN NaN ELSE <<FSign(x) * FSign(y), SpecialExp>>)
    ELSE Norm(x[1] * y[1], x[2] + y[2])

FDiv(x, y) ==
    IF IsNaN(x) \/ IsNaN(y) THEN NaN
    ELSE IF IsInf(x) THEN (IF IsInf(y) THEN NaN
                           ELSE <<FSign(x) * (IF y[1] < 0 THEN -1 ELSE 1), SpecialExp>>)
    ELSE IF IsInf(y) THEN Zero
    ELSE IF y = Zero THEN (IF x = Zero THEN NaN ELSE <<FSign(x), SpecialExp>>)
    ELSE IF x = Zero THEN Zero
    ELSE LET q == (Abs(x[1]) * Pow10(5)) \div Abs(y[1])
             r == (Abs(x[1]) * Pow10(5)) % Abs(y[1])
             \* one more digit, with a sticky last digit, so that Norm rounds correctly
             q10 == q * 10 + (IF r = 0 THEN 0 ELSE 1)
         IN  Norm(FSign(x) * FSign(y) * q10, x[2] - y[2] - 6)

FAdd(x, y) ==
    IF IsNaN(x) \/ IsNaN(y) THEN NaN
    ELSE IF IsInf(x) THEN (IF IsInf(y) /\ x # y THEN NaN ELSE x)
    ELSE IF IsInf(y) THEN y
    ELSE IF x = Zero THEN y
    ELSE IF y = Zero THEN x
    ELSE LET hi == IF x[2] >= y[2] THEN x ELSE y
             lo == IF x[2] >= y[2] THEN y ELSE x
             diff == hi[2] - lo[2]
         IN  IF diff > 5 THEN hi
             ELSE Norm(hi[1] * Pow10(diff) + lo[1], lo[2])

FSub(x, y) == FAdd(x, FNeg(y))

\* Comparisons: every comparison with NaN is false.
FLt(x, y) ==
    /\ ~IsNaN(x)
    /\ ~IsNaN(y)
    /\ x # y
    /\ IF IsInf(x) THEN x = NegInf
       ELSE IF IsInf(y) THEN y = PosInf
       ELSE IF FSign(x) # FSign(y) THEN FSign(x) < FSign(y)
       ELSE IF x[2] # y[2] THEN (IF FSign(x) > 0 THEN x[2] < y[2] ELSE x[2] > y[2])
       ELSE x[1] < y[1]

FGt(x, y) == FLt(y, x)

FLe(x, y) == ~IsNaN(x) /\ ~IsNaN(y) /\ (x = y \/ FLt(x, y))

FGe(x, y) == FLe(y, x)

\* f32::min and f32::max return the other argument when one is NaN.
FMin(x, y) == IF IsNaN(x) THEN y ELSE IF IsNaN(y) THEN x ELSE IF FLt(y, x) THEN y ELSE x

FMax(x, y) == IF IsNaN(x) THEN y ELSE IF IsNaN(y) THEN x ELSE IF FGt(y, x) THEN y ELSE x

\* f32::trunc: the integer part, rounded toward zero.
FTrunc(x) ==
    IF ~IsFinite(x) THEN x
    ELSE IF x[2] >= 0 THEN x
    ELSE IF x[2] <= -4 THEN Zero
    ELSE Norm(Sgn(x[1]) * ((Abs(x[1]) \div Pow10(-x[2])) * Pow10(-x[2])), x[2])

\* f32::fract is self - self.trunc(): it keeps the sign of self.
FFract(x) == IF IsInf(x) THEN NaN ELSE FSub(x, FTrunc(x))

\* The % of f32 is fmod: x - trunc(x / y) * y, with the sign of x.
FRem(x, y) ==
    IF IsNaN(x) \/ IsNaN(y) \/ IsInf(x) \/ y = Zero THEN NaN
    ELSE IF IsInf(y) THEN x
    ELSE Only({ IF r # Zero /\ FSign(r) # FSign(x)
                THEN FAdd(r, IF FSign(x) > 0 THEN FAbs(y) ELSE FNeg(FAbs(y)))
                ELSE r
                : r \in {FSub(x, FMul(FTrunc(FDiv(x, y)), y))} })

(***************************************************************************)
(* f32: the library functions the program calls (sqrt, ln, powf, sin, cos, *)
(* acos, atan2).  Each is computed in fixed point with four decimals after *)
(* range reduction, and has the special cases of the IEEE function.        *)
(***************************************************************************)
Fix == 10000

\* x * 10^4 as an integer, for |x| < 10^5.
ToFix(x) ==
    LET k == x[2] + 4
    IN  IF k >= 0 THEN x[1] * Pow10(k)
        ELSE IF k < -4 THEN 0
        ELSE Sgn(x[1]) * ((Abs(x[1]) + Pow10(-k) \div 2) \div Pow10(-k))

FromFix(n) == Norm(n, -4)

RECURSIVE ISqrtIter(_, _)
ISqrtIter(n, g) ==
    LET h == (g + n \div g) \div 2
    IN  IF h >= g THEN g ELSE ISqrtIter(n, h)

\* The integer square root of n, 0 < n < 10^9.
ISqrt(n) == ISqrtIter(n, 40000)

FSqrt(x) ==
    IF IsNaN(x) THEN NaN
    ELSE IF x = Zero THEN Zero
    ELSE IF x[1] < 0 THEN NaN
    ELSE IF x = PosInf THEN PosInf
    ELSE IF x[2] % 2 = 0
         THEN Norm(ISqrt(x[1] * Pow10(4)), (x[2] - 4) \div 2)
         ELSE Norm(ISqrt(x[1] * Pow10(5)), (x[2] - 5) \div 2)

Ln2Fix == 6931

Ln10Fix == 23026

PiFix == 31416

HalfPiFix == 15708

Pi == Dec(3142, -3)

HalfPi == Dec(1571, -3)

\* ln(t / 10^4) * 10^4 for 10^4 <= t < 2 * 10^4, by the series of 2 * atanh((t-1)/(t+1)).
LnSeries(t) ==
    LET u == ((t - Fix) * Fix) \div (t + Fix)
        u2 == (u * u) \div Fix
        u4 == (u2 * u2) \div Fix
        u6 == (u4 * u2) \div Fix
        s == Fix + u2 \div 3 + u4 \div 5 + u6 \div 7
    IN  (2 * u * s) \div Fix

\* ln(m / 1000) * 10^4 for a mantissa 1000 <= m <= 9999.
LnMantissa(m) ==
    LET t == m * 10
    IN  IF t < 2 * Fix THEN LnSeries(t)
        ELSE IF t < 4 * Fix THEN Ln2Fix + LnSeries(t \div 2)
        ELSE IF t < 8 * Fix THEN 2 * Ln2Fix + LnSeries(t \div 4)
        ELSE 3 * Ln2Fix + LnSeries(t \div 8)

FLn(x) ==
    IF IsNaN(x) THEN NaN
    ELSE IF x = Zero THEN NegInf
    ELSE IF x[1] < 0 THEN NaN
    ELSE IF x = PosInf THEN PosInf
    ELSE FromFix(LnMantissa(x[1]) + (x[2] + 3) * Ln10Fix)

\* e^(g / 10^4) * 10^4 for 0 <= g < Ln2Fix.
ExpSeries(g) ==
    LET g2 == (g * g) \div Fix
        g3 == (g2 * g) \div Fix
        g4 == (g3 * g) \div Fix
        g5 == (g4 * g) \div Fix
    IN  Fix + g + g2 \div 2 + g3 \div 6 + g4 \div 24 + g5 \div 120

FExp(x) ==
    IF IsNaN(x) THEN NaN
    ELSE IF x = PosInf THEN PosInf
    ELSE IF x = NegInf THEN Zero
    ELSE IF FGt(x, Dec(89, 0)) THEN PosInf
    ELSE IF FLt(x, Dec(-111, 0)) THEN Zero
    ELSE Only({ Norm(ExpSeries(f % Ln2Fix)
                        * (CASE f \div Ln2Fix = 0 -> 1 [] f \div Ln2Fix = 1 -> 2
                             [] f \div Ln2Fix = 2 -> 4 [] f \div Ln2Fix = 3 -> 8),
                     z \div Ln10Fix - 4)
                : z \in {ToFix(x)}, f \in {ToFix(x) % Ln10Fix} })

RECURSIVE FPowInt(_, _)
FPowInt(x, n) == IF n = 0 THEN Dec(1, 0) ELSE FMul(x, FPowInt(x, n - 1))

IsIntegral(y) == IsFinite(y) /\ FTrunc(y) = y

\* The integer value of an integral y with |y| < 10^5.
ToInt(y) == IF y[2] >= 0 THEN y[1] * Pow10(y[2]) ELSE y[1] \div Pow10(-y[2])

MaxIntPow == 64

\* x^y for finite x > 0 and finite y.
FPowPos(x, y) ==
    IF FLe(FAbs(FTrunc(y)), FromInt(MaxIntPow))
    THEN Only({ IF f = Zero THEN ip ELSE FMul(ip, FExp(FMul(f, FLn(x))))
                : f \in {FSub(y, FTrunc(y))},
                  ip \in { IF n >= 0 THEN FPowInt(x, n) ELSE FDiv(Dec(1, 0), FPowInt(x, -n))
                           : n \in {ToInt(FTrunc(y))} } })
    ELSE FExp(FMul(y, FLn(x)))

\* f32::powf, with the special cases of IEEE pow.
FPow(x, y) ==
    IF y = Zero \/ x = Dec(1, 0) THEN Dec(1, 0)
    ELSE IF IsNaN(x) \/ IsNaN(y) THEN NaN
    ELSE IF x = Zero THEN (IF y[1] > 0 THEN Zero ELSE PosInf)
    ELSE IF IsInf(y)
         THEN (IF FAbs(x) = Dec(1, 0) THEN Dec(1, 0)
               ELSE IF FLt(FAbs(x), Dec(1, 0)) = (y = PosInf) THEN Zero ELSE PosInf)
    ELSE IF x = PosInf THEN (IF y[1] > 0 THEN PosInf ELSE Zero)
    ELSE IF x[1] < 0 /\ ~IsIntegral(y) THEN NaN
    ELSE Only({ IF x[1] < 0 /\ y[2] <= 0 /\ ToInt(y) % 2 = 1 THEN FNeg(a) ELSE a
                : a \in {IF x = NegInf THEN (IF y[1] > 0 THEN PosInf ELSE Zero)
                         ELSE FPowPos(FAbs(x), y)} })

\* sin(r / 10^4) * 10^4 for 0 <= r <= HalfPiFix, by its Taylor series.
SinSeries(r) ==
    LET r2 == (r * r) \div Fix
        t3 == ((r * r2) \div Fix) \div 6
        t5 == ((t3 * r2) \div Fix) \div 20
        t7 == ((t5 * r2) \div Fix) \div 42
        t9 == ((t7 * r2) \div Fix) \div 72
        s == r - t3 + t5 - t7 + t9
    IN  IF r = HalfPiFix \/ s > Fix THEN Fix ELSE s

\* sin(a / 10^4) * 10^4 for any integer a.
SinFix(a) ==
    LET r == a % (2 * PiFix)
        h == IF r >= PiFix THEN r - PiFix ELSE r
        q == IF h > HalfPiFix THEN PiFix - h ELSE h
    IN  (IF r >= PiFix THEN -1 ELSE 1) * SinSeries(q)

\* The angle as a fixed-point number, reduced first when it is large.
AngleFix(x) ==
    IF x[2] > 0 THEN ToFix(FRem(x, FromFix(2 * PiFix))) ELSE ToFix(x)

FSin(x) ==
    IF ~IsFinite(x) THEN NaN
    ELSE IF x[2] < -8 THEN x
    ELSE FromFix(SinFix(AngleFix(x)))

FCos(x) ==
    IF ~IsFinite(x) THEN NaN
    ELSE IF x[2] < -8 THEN Dec(1, 0)
    ELSE FromFix(SinFix(AngleFix(x) + HalfPiFix))

Sqrt3Fix == 17321

TanPi12Fix == 2679

\* atan(t / 10^4) * 10^4 for 0 <= t <= TanPi12Fix, by its Taylor series.
AtanSeries(t) ==
    LET t2 == (t * t) \div Fix
        t3 == (t * t2) \div Fix
        t5 == (t3 * t2) \div Fix
        t7 == (t5 * t2) \div Fix
    IN  t - t3 \div 3 + t5 \div 5 - t7 \div 7

\* atan(t / 10^4) * 10^4 for 0 <= t <= 10^4.
AtanFix(t) ==
    IF t = Fix THEN HalfPiFix \div 2
    ELSE IF t <= TanPi12Fix THEN AtanSeries(t)
    ELSE PiFix \div 6 + AtanSeries((((Sqrt3Fix * t) \div Fix - Fix) * Fix) \div (Sqrt3Fix + t))

\* y.atan2(x)
FAtan2(y, x) ==
    IF IsNaN(x) \/ IsNaN(y) THEN NaN
    ELSE IF y = Zero THEN (IF x[1] >= 0 THEN Zero ELSE Pi)
    ELSE IF x = Zero THEN (IF y[1] > 0 THEN HalfPi ELSE FNeg(HalfPi))
    ELSE Only({ FromFix(Sgn(y[1]) * (IF x[1] < 0 THEN PiFix - a ELSE a))
                : a \in {IF FGt(FAbs(y), FAbs(x))
                         THEN HalfPiFix - AtanFix(ToFix(FDiv(FAbs(x), FAbs(y))))
                         ELSE AtanFix(IF IsInf(x) /\ IsInf(y) THEN Fix
                                      ELSE ToFix(FDiv(FAbs(y), FAbs(x))))} })

FAcos(x) ==
    IF IsNaN(x) \/ FGt(FAbs(x), Dec(1, 0)) THEN NaN
    ELSE FAtan2(FSqrt(FMul(FSub(Dec(1, 0), x), FAdd(Dec(1, 0), x))), x)

(***************************************************************************)
(* u32: pairs <<hi, lo>> of 16-bit limbs                                   *)
(***************************************************************************)
Limb == 65536

U32(n) == <<n \div Limb, n % Limb>>

U32Max == <<Limb - 1, Limb - 1>>

\* seed / d and seed % d for a divisor 0 < d < 2^15, by long division on the limbs.
U32Div(s, d) == <<s[1] \div d, (((s[1] % d) * Limb) + s[2]) \div d>>

U32Mod(s, d) == (((s[1] % d) * Limb) + s[2]) % d

\* The value of s as an integer, for s < 2^31.
U32ToNat(s) == s[1] * Limb + s[2]

\* `s as f32`
U32ToF32(s) ==
    IF s[1] < Limb \div 2 THEN FromInt(U32ToNat(s))
    ELSE FAdd(FMul(FromInt(s[1]), FromInt(Limb)), FromInt(s[2]))

(***************************************************************************)
(* fractals.rs: the factory                                                *)
(***************************************************************************)
Vec3(x, y, z) == <<x, y, z>>

Vec4(x, y, z, w) == <<x, y, z, w>>

\* One component of the Julia constant: ((n as f32) / 1000.0 - 0.5) * 2.0
JuliaComponent(n) == FMul(FSub(FDiv(FromInt(n), Dec(1000, 0)), Dec(5, -1)), Dec(2, 0))

\* As MandelbulbFromSeed, with the iteration count growing with time.
MandelbulbFromSeedTimed(seed, time) ==
    [name |-> "Mandelbulb",
     power |-> FAdd(Dec(6, 0), FromInt(U32Mod(U32Div(seed, 3), 8))),
     iterations |-> 8 + U32Mod(U32Div(seed, 24), 4) + (IF FGe(time, Dec(1, 0)) THEN 1 ELSE 0),
     time |-> time]

\* As MandelbulbFromSeed, with the iteration sub-field taken mod 16 instead of mod 4.
MandelbulbFromSeedWide(seed, time) ==
    [name |-> "Mandelbulb",
     power |-> FAdd(Dec(6, 0), FromInt(U32Mod(U32Div(seed, 3), 8))),
     iterations |-> 8 + U32Mod(U32Div(seed, 24), 16),
     time |-> time]

MandelbulbFromSeed(seed, time) ==
    [name |-> "Mandelbulb",
     power |-> FAdd(Dec(6, 0), FromInt(U32Mod(U32Div(seed, 3), 8))),
     iterations |-> 8 + U32Mod(U32Div(seed, 24), 4),
     time |-> time]

\* c_seed = seed / 100 is below 2^31, so its sub-fields are plain integer arithmetic.
Julia4DFromSeed(seed, time) ==
    LET c_seed == U32ToNat(U32Div(seed, 100))
    IN  [name |-> "Julia4D",
         c |-> Vec4(JuliaComponent(c_seed % 1000),
                    JuliaComponent((c_seed \div 1000) % 1000),
                    JuliaComponent((c_seed \div 1000000) % 1000),
                    JuliaComponent((c_seed \div 1000000000) % 1000)),
         iterations |-> 8 + U32Mod(U32Div(seed, 13), 6),
         time |-> time]

\* As KaleidoIFSFromSeed, with the base scale starting at 0.5 instead of 1.5.
KaleidoIFSFromSeedSmall(seed, time) ==
    [name |-> "KaleidoIFS",
     fold_count |-> 4 + U32Mod(U32Div(seed, 7), 8),
     scale |-> FAdd(Dec(5, -1), FMul(FromInt(U32Mod(U32Div(seed, 17), 10)), Dec(3, -1))),
     time |-> time]

KaleidoIFSFromSeed(seed, time) ==
    [name |-> "KaleidoIFS",
     fold_count |-> 4 + U32Mod(U32Div(seed, 7), 8),
     scale |-> FAdd(Dec(15, -1), FMul(FromInt(U32Mod(U32Div(seed, 17), 10)), Dec(3, -1))),
     time |-> time]

\* As create_fractal_from_seed, with the arms for 1 and 2 exchanged.
create_fractal_from_seed_swapped(seed, time) ==
    LET fractal_type == U32Mod(seed, 3)
    IN  CASE fractal_type = 0 -> MandelbulbFromSeed(seed, time)
          [] fractal_type = 2 -> Julia4DFromSeed(seed, time)
          [] OTHER -> KaleidoIFSFromSeed(seed, time)

create_fractal_from_seed(seed, time) ==
    LET fractal_type == U32Mod(seed, 3)
    IN  CASE fractal_type = 0 -> MandelbulbFromSeed(seed, time)
          [] fractal_type = 1 -> Julia4DFromSeed(seed, time)
          [] OTHER -> KaleidoIFSFromSeed(seed, time)

get_name(fractal) == fractal.name

\* The loop cap of a field: `iterations` or `fold_count`.
LoopCap(fractal) ==
    IF fractal.name = "KaleidoIFS" THEN fractal.fold_count ELSE fractal.iterations

(***************************************************************************)
(* fractals.rs: the distance estimators.  A loop is a state `st` (the      *)
(* iterate, the running derivative or scale, the number of passes begun,   *)
(* whether the pass broke out) and one operator per loop body.             *)
(***************************************************************************)
One == Dec(1, 0)

Two == Dec(2, 0)

V3Add(a, b) == <<FAdd(a[1], b[1]), FAdd(a[2], b[2]), FAdd(a[3], b[3])>>

V3Sub(a, b) == <<FSub(a[1], b[1]), FSub(a[2], b[2]), FSub(a[3], b[3])>>

V3Scale(a, k) == <<FMul(a[1], k), FMul(a[2], k), FMul(a[3], k)>>

V3Dot(a, b) == FAdd(FAdd(FMul(a[1], b[1]), FMul(a[2], b[2])), FMul(a[3], b[3]))

V3Norm(a) == FSqrt(V3Dot(a, a))

V4Add(a, b) == <<FAdd(a[1], b[1]), FAdd(a[2], b[2]), FAdd(a[3], b[3]), FAdd(a[4], b[4])>>

V4Norm(a) ==
    FSqrt(FAdd(FAdd(FAdd(FMul(a[1], a[1]), FMul(a[2], a[2])), FMul(a[3], a[3])), FMul(a[4], a[4])))

Xyz(pos) == <<pos[1], pos[2], pos[3]>>

MandelbulbStart(pos) == [z |-> Xyz(pos), dr |-> One, r |-> Zero, i |-> 0, broke |-> FALSE]

MandelbulbDynamicPower(f) == FAdd(f.power, FMul(FSin(FMul(f.time, Dec(1, -1))), Two))

\* One pass of the loop of Mandelbulb::distance_estimator.
MandelbulbPass(f, pos, st) ==
    Only({ IF FGt(r, Two) THEN [st EXCEPT !.r = r, !.i = @ + 1, !.broke = TRUE]
           ELSE Only({ [z |-> V3Add(Vec3(FMul(FMul(zr, FSin(theta)), FCos(phi)),
                                         FMul(FMul(zr, FSin(theta)), FSin(phi)),
                                         FMul(zr, FCos(theta))),
                                    Xyz(pos)),
                        dr |-> FAdd(FMul(FMul(FPow(r, FSub(dynamic_power, One)), dynamic_power),
                                         st.dr),
                                    One),
                        r |-> r,
                        i |-> st.i + 1,
                        broke |-> FALSE]
                       : theta \in {FAdd(FAdd(FAcos(FDiv(st.z[3], r)), FMul(pos[4], Dec(1, -1))),
                                         FMul(f.time, Dec(5, -2)))},
                         phi \in {FAdd(FAtan2(st.z[2], st.z[1]), FMul(f.time, Dec(3, -2)))},
                         zr \in {FPow(r, dynamic_power)} })
           : dynamic_power \in {MandelbulbDynamicPower(f)}, r \in {V3Norm(st.z)} })

\* 0.5 * r.ln() * r / dr
MandelbulbResult(st) == FDiv(FMul(FMul(Dec(5, -1), FLn(st.r)), st.r), st.dr)

Julia4DStart(pos) == [z |-> pos, dz |-> Vec4(One, Zero, Zero, Zero), i |-> 0, broke |-> FALSE]

Julia4DDynamicC(f) ==
    Vec4(FAdd(f.c[1], FMul(FSin(FMul(f.time, Dec(1, -1))), Dec(3, -1))),
         FAdd(f.c[2], FMul(FCos(FMul(f.time, Dec(13, -2))), Dec(2, -1))),
         FAdd(f.c[3], FMul(FSin(FMul(f.time, Dec(7, -2))), Dec(25, -2))),
         FAdd(f.c[4], FMul(FCos(FMul(f.time, Dec(11, -2))), Dec(15, -2))))

quat_square(q) ==
    Vec4(FSub(FSub(FSub(FMul(q[1], q[1]), FMul(q[2], q[2])), FMul(q[3], q[3])), FMul(q[4], q[4])),
         FMul(FMul(Two, q[1]), q[2]),
         FMul(FMul(Two, q[1]), q[3]),
         FMul(FMul(Two, q[1]), q[4]))

quat_mult_derivative(q, dq) ==
    Vec4(FMul(Two, FSub(FSub(FSub(FMul(q[1], dq[1]), FMul(q[2], dq[2])), FMul(q[3], dq[3])),
                        FMul(q[4], dq[4]))),
         FMul(Two, FAdd(FMul(q[1], dq[2]), FMul(q[2], dq[1]))),
         FMul(Two, FAdd(FMul(q[1], dq[3]), FMul(q[3], dq[1]))),
         FMul(Two, FAdd(FMul(q[1], dq[4]), FMul(q[4], dq[1]))))

\* One pass of the loop of Julia4D::distance_estimator.
Julia4DPass(f, pos, st) ==
    LET r == V4Norm(st.z)
    IN  IF FGt(r, Dec(4, 0)) THEN [st EXCEPT !.i = @ + 1, !.broke = TRUE]
        ELSE [z |-> V4Add(quat_square(st.z), Julia4DDynamicC(f)),
              dz |-> V4Add(quat_mult_derivative(st.z, st.dz), Vec4(One, Zero, Zero, Zero)),
              i |-> st.i + 1,
              broke |-> FALSE]

\* let r = z.norm(); 0.5 * r.ln() * r / dz.norm()
Julia4DResult(st) ==
    Only({ FDiv(FMul(FMul(Dec(5, -1), FLn(r)), r), V4Norm(st.dz)) : r \in {V4Norm(st.z)} })

KaleidoIFSStart(pos) == [p |-> Xyz(pos), scale |-> One, i |-> 0, broke |-> FALSE]

\* |x| if x > 1.0 { 2.0 - x } else if x < -1.0 { -2.0 - x } else { x }
BoxFold(x) ==
    IF FGt(x, One) THEN FSub(Two, x)
    ELSE IF FLt(x, FNeg(One)) THEN FSub(FNeg(Two), x)
    ELSE x

\* let angle = ...; let fold_normal = ...: the folding plane of pass i.
FoldNormal(f, i) ==
    Only({ Vec3(FCos(angle), FSin(angle), FSin(FMul(angle, Dec(13, -1))))
           : angle \in {FAdd(FMul(f.time, Dec(1, -1)), FMul(FromInt(i), Dec(5, -1)))} })

\* Kaleidoscopic folding: p - 2.0 * dot * fold_normal when dot < 0.0.
KaleidoscopicFold(p, fold_normal) ==
    Only({ IF FLt(dot, Zero) THEN V3Sub(p, V3Scale(fold_normal, FMul(Two, dot))) ELSE p
           : dot \in {V3Dot(p, fold_normal)} })

\* Box folding, component by component.
BoxFoldMap(p) == <<BoxFold(p[1]), BoxFold(p[2]), BoxFold(p[3])>>

\* Spherical folding of p and scale, r2 being p.norm_squared().
SphereFold(p, scale, r2) ==
    IF FLt(r2, Dec(25, -2)) THEN [p |-> V3Scale(p, Dec(4, 0)), scale |-> FMul(scale, Dec(4, 0))]
    ELSE IF FLt(r2, One)
         THEN [p |-> <<FDiv(p[1], r2), FDiv(p[2], r2), FDiv(p[3], r2)>>, scale |-> FDiv(scale, r2)]
    ELSE [p |-> p, scale |-> scale]

\* let dynamic_scale = self.scale + (self.time * 0.05 + i as f32 * 0.1).sin() * 0.5
DynamicScale(f, i) ==
    FAdd(f.scale,
         FMul(FSin(FAdd(FMul(f.time, Dec(5, -2)), FMul(FromInt(i), Dec(1, -1)))), Dec(5, -1)))

\* Scale and translate: the end of pass i, on the folded p and scale.
ScaleAndTranslate(f, pos, i, folded) ==
    Only({ [p |-> V3Add(V3Scale(folded.p, dynamic_scale),
                        Vec3(FMul(FSin(FMul(f.time, Dec(7, -2))), Dec(1, -1)),
                             FMul(FCos(FMul(f.time, Dec(11, -2))), Dec(1, -1)),
                             FMul(pos[4], Dec(2, -1)))),
            scale |-> FMul(folded.scale, dynamic_scale),
            i |-> i + 1,
            broke |-> FALSE]
           : dynamic_scale \in {DynamicScale(f, i)} })

\* One pass of the loop of KaleidoIFS::distance_estimator; st.i is the loop variable i.
KaleidoIFSPass(f, pos, st) ==
    ScaleAndTranslate(f, pos, st.i,
        Only({ SphereFold(p, st.scale, V3Dot(p, p))
               : p \in {BoxFoldMap(KaleidoscopicFold(st.p, FoldNormal(f, st.i)))} }))

\* (p.norm() - 0.5) / scale.abs()
KaleidoIFSResult(st) == FDiv(FSub(V3Norm(st.p), Dec(5, -1)), FAbs(st.scale))

\* The dispatch of the trait object: the loop start, the loop body and the result.
DEStart(f, pos) ==
    CASE f.name = "Mandelbulb" -> MandelbulbStart(pos)
      [] f.name = "Julia4D" -> Julia4DStart(pos)
      [] f.name = "KaleidoIFS" -> KaleidoIFSStart(pos)

DEPass(f, pos, st) ==
    CASE f.name = "Mandelbulb" -> MandelbulbPass(f, pos, st)
      [] f.name = "Julia4D" -> Julia4DPass(f, pos, st)
      [] f.name = "KaleidoIFS" -> KaleidoIFSPass(f, pos, st)

DEResult(f, st) ==
    CASE f.name = "Mandelbulb" -> MandelbulbResult(st)
      [] f.name = "Julia4D" -> Julia4DResult(st)
      [] f.name = "KaleidoIFS" -> KaleidoIFSResult(st)

\* As LoopContinues, with the bound of the range inclusive (`0..=n`).
LoopContinuesInclusive(f, st) == st.i <= LoopCap(f) /\ ~st.broke

\* `for _ in 0..n`: another pass begins while fewer than n have begun and none broke out.
LoopContinues(f, st) == st.i < LoopCap(f) /\ ~st.broke

RECURSIVE DELoop(_, _, _)
DELoop(f, pos, st) == IF LoopContinues(f, st) THEN DELoop(f, pos, DEPass(f, pos, st)) ELSE st

distance_estimator(f, pos) == DEResult(f, DELoop(f, pos, DEStart(f, pos)))

(***************************************************************************)
(* fractals.rs: colouring                                                  *)
(***************************************************************************)
\* The (r, g, b) tuple of hsv_to_rgb before m is added.
HsvSector(h_prime, c, x) ==
    IF FLt(h_prime, One) THEN <<c, x, Zero>>
    ELSE IF FLt(h_prime, Two) THEN <<x, c, Zero>>
    ELSE IF FLt(h_prime, Dec(3, 0)) THEN <<Zero, c, x>>
    ELSE IF FLt(h_prime, Dec(4, 0)) THEN <<Zero, x, c>>
    ELSE IF FLt(h_prime, Dec(5, 0)) THEN <<x, Zero, c>>
    ELSE <<c, Zero, x>>

hsv_to_rgb(h, s, v) ==
    Only({ Only({ Vec3(FAdd(rgb[1], m), FAdd(rgb[2], m), FAdd(rgb[3], m))
                  : rgb \in {HsvSector(h_prime, c,
                                       FMul(c, FSub(One, FAbs(FSub(FRem(h_prime, Two), One)))))},
                    m \in {FSub(v, c)} })
           : c \in {FMul(v, s)}, h_prime \in {FRem(FMul(h, Dec(6, 0)), Dec(6, 0))} })

\* The hue, saturation and value that Mandelbulb::get_color hands to hsv_to_rgb.
MandelbulbHsv(f, iterations, distance, pos) ==
    Only({ <<hue, saturation, value>>
           : hue \in { FFract(FAdd(FAdd(base_hue, depth_hue), position_hue))
                       : base_hue \in { FAdd(FMul(FSin(FAdd(FMul(iteration_factor, Dec(6, 0)),
                                                            FMul(f.time, Dec(5, -1)))),
                                                  Dec(5, -1)),
                                             Dec(5, -1))
                                        : iteration_factor \in {FDiv(FromInt(iterations),
                                                                     FromInt(f.iterations))} },
                         depth_hue \in {FMul(FCos(FAdd(FMul(pos[4], Dec(3, 0)),
                                                       FMul(f.time, Dec(3, -1)))),
                                             Dec(3, -1))},
                         position_hue \in {FMul(FSin(FAdd(FMul(FAdd(FAdd(pos[1], pos[2]), pos[3]),
                                                               Dec(1, -1)),
                                                          FMul(f.time, Dec(1, -1)))),
                                                Dec(2, -1))} },
             saturation \in {FAdd(Dec(8, -1), FMul(FSub(One, FMin(distance, One)), Dec(2, -1)))},
             value \in { FMul(FSub(One, FMin(FMul(distance, Dec(4, 0)), Dec(9, -1))), pulse)
                         : pulse \in {FAdd(FMul(FSin(FAdd(FMul(f.time, Two),
                                                          FMul(pos[1], Dec(5, -1)))),
                                                Dec(3, -1)),
                                           Dec(7, -1))} } })

\* The hue, saturation and value that Julia4D::get_color hands to hsv_to_rgb.
Julia4DHsv(f, iterations, distance, pos) ==
    Only({ <<hue, saturation, value>>
           : hue \in { FFract(FAdd(angle, depth))
                       : angle \in {FDiv(FAdd(FAtan2(pos[1], pos[2]), FMul(f.time, Dec(1, -1))),
                                         FMul(Two, Pi))},
                         depth \in {FAdd(FMul(FAdd(pos[3], pos[4]), Dec(1, -1)),
                                         FMul(f.time, Dec(5, -2)))} },
             saturation \in {FMax(FSub(One, FMul(distance, Dec(5, -1))), Dec(2, -1))},
             value \in {FPow(FDiv(FromInt(iterations), FromInt(f.iterations)), Dec(7, -1))} })

\* The hue, saturation and value that KaleidoIFS::get_color hands to hsv_to_rgb.
KaleidoIFSHsv(f, iterations, distance, pos) ==
    Only({ <<FFract(FAdd(FAdd(complexity, FMul(f.time, Dec(3, -1))), pos[4])),
             FMax(FSub(One, FMul(distance, Dec(3, -1))), Dec(4, -1)),
             FMax(FAdd(Dec(8, -1), FMul(FSin(FMul(complexity, Dec(3, 0))), Dec(2, -1))), Dec(1, -1))>>
           : complexity \in {FMul(FAdd(FromInt(iterations), FMul(distance, Dec(10, 0))),
                                  Dec(1, -1))} })

ColorHsv(f, iterations, distance, pos) ==
    CASE f.name = "Mandelbulb" -> MandelbulbHsv(f, iterations, distance, pos)
      [] f.name = "Julia4D" -> Julia4DHsv(f, iterations, distance, pos)
      [] f.name = "KaleidoIFS" -> KaleidoIFSHsv(f, iterations, distance, pos)

get_color(f, iterations, distance, pos) ==
    Only({ hsv_to_rgb(hsv[1], hsv[2], hsv[3]) : hsv \in {ColorHsv(f, iterations, distance, pos)} })

(***************************************************************************)
(* user.rs: the daily seed                                                 *)
(***************************************************************************)
\* js_sys::Date::get_month is the month of the JavaScript Date: January is 0.
JsGetMonth(date) == date.month - 1

RECURSIVE DecimalDigits(_)
\* u32::to_string as UTF-8 bytes
DecimalDigits(n) ==
    IF n < 10 THEN <<48 + n>> ELSE Append(DecimalDigits(n \div 10), 48 + (n % 10))

\* hash.wrapping_mul(31).wrapping_add(byte as u32)
HashStep(hash, byte) ==
    LET lo == hash[2] * 31 + byte
        hi == hash[1] * 31 + lo \div Limb
    IN  <<hi % Limb, lo % Limb>>

RECURSIVE HashBytes(_, _)
HashBytes(hash, bytes) ==
    IF bytes = <<>> THEN hash ELSE HashBytes(HashStep(hash, Head(bytes)), Tail(bytes))

day_code_without_day(date) == date.year * 10000 + JsGetMonth(date) * 100

day_code(date) == date.year * 10000 + JsGetMonth(date) * 100 + date.day

\* generate_daily_seed reads the clock; here the date it reads is the argument.
generate_daily_seed(id, date) ==
    HashBytes(U32(0), id \o DecimalDigits(day_code(date)))

(***************************************************************************)
(* nalgebra::Matrix4<f32>: sixteen elements stored column by column, which *)
(* is the order as_slice() exposes.  Row r, column c (from 0) is element   *)
(* 4 * c + r + 1.                                                          *)
(***************************************************************************)
MatAt(m, r, c) == m[4 * c + r + 1]

\* Matrix4::identity()
Identity4 == [k \in 1..16 |-> IF (k - 1) % 4 = (k - 1) \div 4 THEN One ELSE Zero]

\* The matrix whose row r, column c is f[r][c], rows and columns from 1.
MatFromRows(rows) == [k \in 1..16 |-> rows[((k - 1) % 4) + 1][((k - 1) \div 4) + 1]]

\* Matrix4::from_row_slice: the slice is read row by row.
from_row_slice(data) == [k \in 1..16 |-> data[4 * ((k - 1) % 4) + ((k - 1) \div 4) + 1]]

\* self.current_transform * transform
MatMul(a, b) ==
    [k \in 1..16 |->
        LET r == (k - 1) % 4
            c == (k - 1) \div 4
        IN  FAdd(FAdd(FAdd(FMul(MatAt(a, r, 0), MatAt(b, 0, c)), FMul(MatAt(a, r, 1), MatAt(b, 1, c))),
                      FMul(MatAt(a, r, 2), MatAt(b, 2, c))),
                 FMul(MatAt(a, r, 3), MatAt(b, 3, c)))]

\* The determinant of the 3x3 matrix left when row 0 and column skip are removed.
Minor3(m, skip) ==
    LET cols == IF skip = 0 THEN <<1, 2, 3>> ELSE IF skip = 1 THEN <<0, 2, 3>>
                ELSE IF skip = 2 THEN <<0, 1, 3>> ELSE <<0, 1, 2>>
        e(r, j) == MatAt(m, r, cols[j])
    IN  FAdd(FSub(FMul(e(1, 1), FSub(FMul(e(2, 2), e(3, 3)), FMul(e(2, 3), e(3, 2)))),
                  FMul(e(1, 2), FSub(FMul(e(2, 1), e(3, 3)), FMul(e(2, 3), e(3, 1))))),
             FMul(e(1, 3), FSub(FMul(e(2, 1), e(3, 2)), FMul(e(2, 2), e(3, 1)))))

\* Matrix4::determinant, expanded along the first row.
determinant(m) ==
    FSub(FAdd(FSub(FMul(MatAt(m, 0, 0), Minor3(m, 0)), FMul(MatAt(m, 0, 1), Minor3(m, 1))),
              FMul(MatAt(m, 0, 2), Minor3(m, 2))),
         FMul(MatAt(m, 0, 3), Minor3(m, 3)))

\* Matrix4::trace
trace(m) == FAdd(FAdd(FAdd(MatAt(m, 0, 0), MatAt(m, 1, 1)), MatAt(m, 2, 2)), MatAt(m, 3, 3))

\* Matrix4::new_rotation(Vector3::new(0.0, 0.0, angle)): a turn by angle about the z axis.
RotationZ(angle) ==
    Only({ MatFromRows(<<<<cos, FNeg(sin), Zero, Zero>>,
                         <<sin, cos, Zero, Zero>>,
                         <<Zero, Zero, One, Zero>>,
                         <<Zero, Zero, Zero, One>>>>)
           : cos \in {FCos(angle)}, sin \in {FSin(angle)} })

\* Matrix4::new_rotation(Vector3::new(angle, 0.0, 0.0)): a turn by angle about the x axis.
RotationX(angle) ==
    Only({ MatFromRows(<<<<One, Zero, Zero, Zero>>,
                         <<Zero, cos, FNeg(sin), Zero>>,
                         <<Zero, sin, cos, Zero>>,
                         <<Zero, Zero, Zero, One>>>>)
           : cos \in {FCos(angle)}, sin \in {FSin(angle)} })

\* Matrix4::new_scaling(scale)
Scaling(scale) ==
    MatFromRows(<<<<scale, Zero, Zero, Zero>>,
                  <<Zero, scale, Zero, Zero>>,
                  <<Zero, Zero, scale, Zero>>,
                  <<Zero, Zero, Zero, One>>>>)

\* Matrix4::new_translation(&Vector3::new(x, y, z))
Translation(x, y, z) ==
    MatFromRows(<<<<One, Zero, Zero, x>>,
                  <<Zero, One, Zero, y>>,
                  <<Zero, Zero, One, z>>,
                  <<Zero, Zero, Zero, One>>>>)

(***************************************************************************)
(* lib.rs: gestures, the name table of setup_uniforms, the shader's loops  *)
(***************************************************************************)
create_rotation_transform(direction, intensity) ==
    RotationZ(FMul(FMul(direction, intensity), Dec(1, -1)))

create_scale_transform(intensity) == Scaling(FAdd(One, FMul(intensity, Dec(2, -1))))

create_tilt_transform(direction, intensity) ==
    RotationX(FMul(FMul(direction, intensity), Dec(5, -2)))

create_brightness_transform(intensity) == Translation(Zero, Zero, FMul(intensity, Dec(1, -1)))

KnownGestures == {"swipe", "pinch", "tilt", "smile"}

\* The match of apply_gesture, for a gesture_type it knows.
GestureTransform(gesture_type, intensity, direction) ==
    CASE gesture_type = "swipe" -> create_rotation_transform(direction, intensity)
      [] gesture_type = "pinch" -> create_scale_transform(intensity)
      [] gesture_type = "tilt" -> create_tilt_transform(direction, intensity)
      [] gesture_type = "smile" -> create_brightness_transform(intensity)

\* As FractalId, with the ids of Julia4D and KaleidoIFS exchanged.
FractalIdExchanged(name) ==
    CASE name = "Mandelbulb" -> 0
      [] name = "Julia4D" -> 2
      [] name = "KaleidoIFS" -> 1
      [] OTHER -> 0

\* setup_uniforms: the id uploaded as u_fractal_type.
FractalId(name) ==
    CASE name = "Mandelbulb" -> 0
      [] name = "Julia4D" -> 1
      [] name = "KaleidoIFS" -> 2
      [] OTHER -> 0

\* network.rs, encode_fractal_for_url: the fractal_type of the compact record.
EncodedFractalType(name) ==
    CASE name = "Mandelbulb" -> 0
      [] name = "Julia4D" -> 1
      [] name = "KaleidoIFS" -> 2
      [] OTHER -> 0

\* `seed as i32`: the same 32 bits read as two's complement.
U32AsI32(s) == IF s[1] < Limb \div 2 THEN s[1] * Limb + s[2] ELSE (s[1] - Limb) * Limb + s[2]

\* FRAGMENT_SHADER: the constant bound of the for loop of mandelbulb (id 0), julia4d (id 1)
\* and kaleidoIFS (id 2).
ShaderLoopCap(id) ==
    CASE id = 0 -> 10
      [] id = 1 -> 8
      [] id = 2 -> 5

\* update_audio: the four points the field is sampled at.
SamplePoints(t) ==
    <<Vec4(One, Zero, Zero, FMul(t, Dec(1, -1))),
      Vec4(Zero, One, Zero, FMul(t, Dec(13, -2))),
      Vec4(Zero, Zero, One, FMul(t, Dec(17, -2))),
      Vec4(FSin(FMul(t, Dec(1, -1))), FCos(FMul(t, Dec(1, -1))), Zero, Dec(5, -1))>>

(***************************************************************************)
(* fractals.rs: FractalAudioAnalyzer                                       *)
(***************************************************************************)
\* As PointFrequency, with the field's own loop cap handed to get_color in place of 8.
PointFrequencyOwnCap(fractal, point) ==
    Only({ FMul(FMul(Dec(220, 0), FAdd(One, FMul(distance, Dec(5, -1)))),
                FAdd(One, FMul(get_color(fractal, LoopCap(fractal), distance, point)[1],
                               Dec(3, -1))))
           : distance \in {distance_estimator(fractal, point)} })

\* The frequency extract_frequencies derives from one sample point.
PointFrequency(fractal, point) ==
    Only({ Only({ FMul(FMul(base_freq, FAdd(One, FMul(distance, Dec(5, -1)))),
                       FAdd(One, FMul(color[1], Dec(3, -1))))
                  : color \in {get_color(fractal, 8, distance, point)},
                    base_freq \in {Dec(220, 0)} })
           : distance \in {distance_estimator(fractal, point)} })

extract_frequencies(fractal, sample_points) ==
    [i \in 1..Len(sample_points) |-> PointFrequency(fractal, sample_points[i])]

\* The series of the range 0..harmonics in place of 1..=harmonics.
create_harmonic_series_from_zero(fundamental, harmonics) ==
    [h \in 1..harmonics |-> FMul(fundamental, FromInt(h - 1))]

create_harmonic_series(fundamental, harmonics) ==
    [h \in 1..harmonics |-> FMul(fundamental, FromInt(h))]

(***************************************************************************)
(* audio.rs: AudioEngine                                                   *)
(***************************************************************************)
\* Some element moved by more than 5 Hz, or the lengths differ.
frequencies_changed(current_frequencies, new_frequencies) ==
    IF Len(current_frequencies) # Len(new_frequencies) THEN TRUE
    ELSE \E i \in 1..Len(current_frequencies) :
            FGt(FAbs(FSub(current_frequencies[i], new_frequencies[i])), Dec(5, 0))

\* create_oscillator: the frequency the oscillator is set to.
ClampedFrequency(frequency) == FMin(FMax(frequency, Dec(80, 0)), Dec(2000, 0))

\* update_frequencies on the engine [current_frequencies, oscillators, is_playing]; the
\* oscillators are the frequencies of the running oscillator nodes.
update_frequencies(engine, frequencies) ==
    IF frequencies_changed(engine.current_frequencies, frequencies)
    THEN [current_frequencies |-> frequencies,
          oscillators |-> [i \in 1..Len(frequencies) |-> ClampedFrequency(frequencies[i])],
          is_playing |-> TRUE]
    ELSE engine

(***************************************************************************)
(* user.rs: UserState                                                      *)
(***************************************************************************)
\* get_date_string: year, get_month() + 1 and day, the fields of "{}-{:02}-{:02}".
get_date_string(date) == <<date.year, JsGetMonth(date) + 1, date.day>>

\* localStorage: a function from the keys that are set to their values.
set_item(store, key, value) ==
    [k \in DOMAIN store \cup {key} |-> IF k = key THEN value ELSE store[k]]

get_complexity_score(current_transform, daily_interactions) ==
    Only({ FAdd(matrix_complexity, interaction_bonus)
           : matrix_complexity \in {FMax(FLn(FAbs(determinant(current_transform))), Zero)},
             interaction_bonus \in {FMul(FSqrt(FromInt(daily_interactions)), Dec(1, -1))} })

\* The snapshot that freeze_current_fractal builds; its timestamp, the wall clock, is read
\* by nothing and is left out.
Snapshot(seed, name, current_transform, daily_interactions) ==
    [seed |-> seed,
     fractal_type |-> name,
     transform_matrix |-> current_transform,
     complexity_score |-> get_complexity_score(current_transform, daily_interactions),
     interaction_count |-> daily_interactions]

RECURSIVE InsertByScore(_, _)
\* x placed after every element whose complexity_score is not below its own.
InsertByScore(sorted, x) ==
    IF sorted = <<>> THEN <<x>>
    ELSE IF FGt(x.complexity_score, Head(sorted).complexity_score) THEN <<x>> \o sorted
    ELSE <<Head(sorted)>> \o InsertByScore(Tail(sorted), x)

RECURSIVE SortByScore(_)
\* sort_by(|a, b| b.complexity_score.partial_cmp(&a.complexity_score)): stable, descending.
SortByScore(list) ==
    IF list = <<>> THEN <<>>
    ELSE InsertByScore(SortByScore(SubSeq(list, 1, Len(list) - 1)), list[Len(list)])

MaxFrozen == 10

\* push and truncate(10) with the sort left out
PushFrozenUnsorted(frozen_fractals, frozen) ==
    Only({ IF Len(pushed) > MaxFrozen THEN SubSeq(pushed, 1, MaxFrozen) ELSE pushed
           : pushed \in {Append(frozen_fractals, frozen)} })

\* push, sort, truncate(10)
PushFrozen(frozen_fractals, frozen) ==
    Only({ IF Len(sorted) > MaxFrozen THEN SubSeq(sorted, 1, MaxFrozen) ELSE sorted
           : sorted \in {SortByScore(Append(frozen_fractals, frozen))} })

\* save_state: the transform under the seed's key, the count under the date's, the history.
save_state(store, seed, date, current_transform, daily_interactions, frozen_fractals) ==
    set_item(set_item(set_item(store, <<"resonant_transform", seed>>, current_transform),
                      <<"resonant_interactions", get_date_string(date)>>, daily_interactions),
             <<"resonant_frozen_fractals", <<>>>>, frozen_fractals)

\* calculate_resonance: 1 / (1 + |trace_a - trace_b|)
trace_similarity(fractal_a, fractal_b) ==
    Only({ FDiv(One, FAdd(One, FAbs(FSub(trace_a, trace_b))))
           : trace_a \in {trace(from_row_slice(fractal_a.transform_matrix))},
             trace_b \in {trace(from_row_slice(fractal_b.transform_matrix))} })

\* calculate_resonance: 1 / (1 + |seed_a as f32 - seed_b as f32| / 1000)
seed_harmony(fractal_a, fractal_b) ==
    Only({ FDiv(One, FAdd(One, FDiv(seed_diff, Dec(1000, 0))))
           : seed_diff \in {FAbs(FSub(U32ToF32(fractal_a.seed), U32ToF32(fractal_b.seed)))} })

\* The sum of the two terms returned as it is, not halved.
calculate_resonance_unaveraged(fractal_a, fractal_b) ==
    FAdd(trace_similarity(fractal_a, fractal_b), seed_harmony(fractal_a, fractal_b))

calculate_resonance(fractal_a, fractal_b) ==
    FMul(FAdd(trace_similarity(fractal_a, fractal_b), seed_harmony(fractal_a, fractal_b)),
         Dec(5, -1))

\* The result of a battle in which a tie makes the current fractal the winner.
BattleResultTieToCurrent(current, opponent, resonance_factor) ==
    Only({ [winner |-> IF FGe(self_score, opponent_score) THEN current ELSE opponent,
            score_self |-> self_score,
            score_opponent |-> opponent_score,
            resonance_factor |-> resonance_factor]
           : self_score \in {FAdd(current.complexity_score,
                                  calculate_resonance(current, opponent))},
             opponent_score \in {FAdd(opponent.complexity_score,
                                      calculate_resonance(opponent, current))} })

\* battle_against_fractal from the two scores on: the BattleResult it returns.
BattleResult(current, opponent, resonance_factor) ==
    Only({ [winner |-> IF FGt(self_score, opponent_score) THEN current ELSE opponent,
            score_self |-> self_score,
            score_opponent |-> opponent_score,
            resonance_factor |-> resonance_factor]
           : self_score \in {FAdd(current.complexity_score,
                                  calculate_resonance(current, opponent))},
             opponent_score \in {FAdd(opponent.complexity_score,
                                      calculate_resonance(opponent, current))} })

\* battle_against_fractal on the opponent's record as parsed from its JSON text; the
\* current fractal is a record built like a snapshot, with the name "Current".
battle_against_fractal(seed, current_transform, daily_interactions, opponent) ==
    Only({ BattleResult(current, opponent, calculate_resonance(current, opponent))
           : current \in {Snapshot(seed, "Current", current_transform, daily_interactions)} })

\* load_transform: the sequence stored under the seed's key, read by from_row_slice, and
\* the identity when nothing is stored or the sequence has not 16 elements.  The JSON text
\* of a finite f32 parses back to the same f32, so the store holds the sequence itself.
load_transform(store, seed) ==
    IF <<"resonant_transform", seed>> \in DOMAIN store
    THEN IF Len(store[<<"resonant_transform", seed>>]) = 16
         THEN from_row_slice(store[<<"resonant_transform", seed>>])
         ELSE Identity4
    ELSE Identity4

load_daily_interactions(store, date) ==
    IF <<"resonant_interactions", get_date_string(date)>> \in DOMAIN store
    THEN store[<<"resonant_interactions", get_date_string(date)>>]
    ELSE 0

load_frozen_fractals(store) ==
    IF <<"resonant_frozen_fractals", <<>>>> \in DOMAIN store
    THEN store[<<"resonant_frozen_fractals", <<>>>>]
    ELSE <<>>

(***************************************************************************)
(* State                                                                   *)
(***************************************************************************)
VARIABLES
    fac_seed,       \* the factory's arguments and the field it returned
    fac_time,
    fac_field,
    sd_user,        \* generate_daily_seed: the user id, the clock's date,
    sd_clock,       \* the seed of the last call and the seeds seen per date
    sd_seed,
    sd_log,
    de_field,       \* distance_estimator: the field, the point, the loop state,
    de_pos,         \* where the call stands and the value it returned
    de_st,
    de_pc,
    de_result,
    col_field,      \* get_color: the field, the arguments and the colour returned
    col_iter,
    col_dist,
    col_pos,
    col_rgb,
    col_pc,
    aud_field,      \* extract_frequencies: the field, the sample points and the
    aud_points,     \* frequencies of the last call, and the calls made so far
    aud_out,
    aud_calls,
    har_fundamental,    \* create_harmonic_series: the arguments and the series returned
    har_count,
    har_out,
    har_pc,
    rsn_a,          \* calculate_resonance: the two snapshots and the score returned
    rsn_b,
    rsn_score,
    rsn_pc,
    frz_all,        \* every snapshot freeze_current_fractal has built, in the order built
    eng_arg,        \* update_frequencies: the argument of the most recent call
    eng_prev,       \* the engine as the most recent call found it
    eng_called,     \* update_frequencies has been called
    eng_started,    \* some call has replaced the stored list
    bat,            \* battle_against_fractal: the most recent call and its BattleResult
    user_id,            \* UserState
    today,              \* the date of the browser's clock
    current_seed,
    current_transform,
    daily_interactions,
    frozen_fractals,
    storage,
    time,               \* Resonant
    fractal_type,
    uniforms,           \* the uniforms of the GL program
    engine,             \* AudioEngine: current_frequencies, oscillators, is_playing
    created,            \* the calls of create_fractal_from_seed so far, with their results
    last_frozen,        \* the snapshot the last freeze_fractal returned
    ops                 \* the number of calls made on the Resonant object

facVars == <<fac_seed, fac_time, fac_field>>

sdVars == <<sd_user, sd_clock, sd_seed, sd_log>>

deVars == <<de_field, de_pos, de_st, de_pc, de_result>>

colVars == <<col_field, col_iter, col_dist, col_pos, col_rgb, col_pc>>

userVars == <<user_id, today, current_seed, current_transform, daily_interactions,
              frozen_fractals, storage>>

resVars == <<userVars, time, fractal_type, uniforms, engine, created, last_frozen, ops>>

audVars == <<aud_field, aud_points, aud_out, aud_calls>>

harVars == <<har_fundamental, har_count, har_out, har_pc>>

rsnVars == <<rsn_a, rsn_b, rsn_score, rsn_pc>>

frzVars == <<frz_all>>

engVars == <<eng_arg, eng_prev, eng_called, eng_started>>

batVars == <<bat>>

auxVars == <<audVars, harVars, rsnVars, frzVars, engVars, batVars>>

vars == <<facVars, sdVars, deVars, colVars, resVars, auxVars>>

NoField == [name |-> "None"]

NoSnapshot == [fractal_type |-> "None"]

\* get_best_frozen_fractal: frozen_fractals.first(), None for an empty history.
get_best_frozen_fractal(history) == IF history = <<>> THEN NoSnapshot ELSE Head(history)

Origin == Vec4(Zero, Zero, Zero, Zero)

\* AudioEngine::new
NewEngine == [current_frequencies |-> <<>>, oscillators |-> <<>>, is_playing |-> FALSE]

\* The uniforms of a freshly linked program are zero.
UnsetUniforms ==
    [u_time |-> Zero, u_seed |-> 0, u_fractal_type |-> 0, u_transform |-> [k \in 1..16 |-> Zero]]

FacIdle == fac_seed = U32(0) /\ fac_time = Zero /\ fac_field = NoField

SdIdle == sd_user = <<>> /\ sd_clock = [year |-> 1970, month |-> 1, day |-> 1]
          /\ sd_seed = U32(0) /\ sd_log = {}

DeIdle == de_field = NoField /\ de_pos = Origin /\ de_st = [i |-> 0, broke |-> FALSE]
          /\ de_pc = "idle" /\ de_result = Zero

ColIdle == col_field = NoField /\ col_iter = 0 /\ col_dist = Zero /\ col_pos = Origin
           /\ col_rgb = Vec3(Zero, Zero, Zero) /\ col_pc = "idle"

AudIdle == aud_field = NoField /\ aud_points = <<>> /\ aud_out = <<>> /\ aud_calls = <<>>

HarIdle == har_fundamental = Zero /\ har_count = 0 /\ har_out = <<>> /\ har_pc = "idle"

RsnIdle == rsn_a = NoSnapshot /\ rsn_b = NoSnapshot /\ rsn_score = Zero /\ rsn_pc = "idle"

FrzIdle == frz_all = <<>>

EngIdle == eng_arg = <<>> /\ eng_prev = NewEngine /\ eng_called = FALSE /\ eng_started = FALSE

\* No battle has been fought.
NoBattle == [called |-> FALSE]

BatIdle == bat = NoBattle

AuxIdle == AudIdle /\ HarIdle /\ RsnIdle /\ FrzIdle /\ EngIdle /\ BatIdle

ResIdle ==
    /\ user_id = <<>>
    /\ today = [year |-> 1970, month |-> 1, day |-> 1]
    /\ current_seed = U32(0)
    /\ current_transform = Identity4
    /\ daily_interactions = 0
    /\ frozen_fractals = <<>>
    /\ storage = <<>>
    /\ time = Zero
    /\ fractal_type = "Unknown"
    /\ uniforms = UnsetUniforms
    /\ engine = NewEngine
    /\ created = <<>>
    /\ last_frozen = NoSnapshot
    /\ ops = 0

(***************************************************************************)
(* The factory applied to sample seeds and times                           *)
(***************************************************************************)
MaxSmallSeed == 200

BigSeeds == {U32(123456), U32(1234567891), <<Limb \div 2, 0>>, <<Limb - 1, Limb - 3>>,
             <<Limb - 1, Limb - 2>>, U32Max}

SeedSet == {U32(n) : n \in 0..MaxSmallSeed} \cup BigSeeds

TimeSet == {Zero, Dec(1, 0), Dec(25, -1)}

FactoryInit ==
    /\ fac_seed \in SeedSet
    /\ fac_time \in TimeSet
    /\ fac_field = NoField
    /\ SdIdle /\ DeIdle /\ ColIdle /\ ResIdle /\ AuxIdle

FactoryCreate ==
    /\ fac_field = NoField
    /\ fac_field' = create_fractal_from_seed(fac_seed, fac_time)
    /\ UNCHANGED <<fac_seed, fac_time, sdVars, deVars, colVars, resVars, auxVars>>

FactoryNext == FactoryCreate

SpecFactory == FactoryInit /\ [][FactoryNext]_vars

(***************************************************************************)
(* generate_daily_seed called as the date changes                          *)
(***************************************************************************)
\* "u", "user_1", "user_42.5"
UserIds == {<<117>>, <<117, 115, 101, 114, 95, 49>>,
            <<117, 115, 101, 114, 95, 52, 50, 46, 53>>}

Date(y, m, d) == [year |-> y, month |-> m, day |-> d]

DateSet == {Date(2025, 1, 15), Date(2025, 1, 16), Date(2025, 2, 15), Date(2025, 12, 31),
            Date(2026, 1, 15), Date(2024, 2, 29), Date(1072, 11, 6), Date(8100, 8, 10)}

SeedInit ==
    /\ sd_user \in UserIds
    /\ sd_clock \in DateSet
    /\ sd_seed = U32(0)
    /\ sd_log = {}
    /\ FacIdle /\ DeIdle /\ ColIdle /\ ResIdle /\ AuxIdle

\* The calendar date moves on.
SeedSetClock ==
    /\ \E d \in DateSet : sd_clock' = d
    /\ UNCHANGED <<sd_user, sd_seed, sd_log, facVars, deVars, colVars, resVars, auxVars>>

SeedGenerate ==
    /\ sd_seed' = generate_daily_seed(sd_user, sd_clock)
    /\ sd_log' = sd_log \cup {[date |-> sd_clock, seed |-> sd_seed']}
    /\ UNCHANGED <<sd_user, sd_clock, facVars, deVars, colVars, resVars, auxVars>>

SeedNext == SeedSetClock \/ SeedGenerate

SpecSeed == SeedInit /\ [][SeedNext]_vars

(***************************************************************************)
(* distance_estimator run pass by pass                                     *)
(***************************************************************************)
MaxDESeed == 77

DESeedSet == {U32(n) : n \in 0..MaxDESeed} \cup {U32(1234567891), U32(1139497195), U32Max}

\* Times: the start, a time near it, and one at which time * 0.05 is about 3 * PI / 2.
DETimeSet == {Zero, Dec(25, -1), Dec(94, 0)}

PosSet == {Origin,
           Vec4(Zero, Zero, Zero, One),
           Vec4(One, Zero, Zero, Zero),
           Vec4(Dec(5, -1), Dec(5, -1), Dec(5, -1), Zero),
           Vec4(Dec(-5, -1), Zero, Zero, Zero),
           Vec4(Dec(3, -1), Dec(-4, -1), Dec(2, -1), Dec(-1, 0)),
           Vec4(Dec(3, 0), Zero, Zero, Zero),
           Vec4(Zero, Dec(5, 0), Zero, Dec(5, -1)),
           \* a point from which the Julia4D of seed 1139497195 leaves the loop in its
           \* third pass with the derivative iterate at zero
           Vec4(Dec(-6057, -4), Dec(-8872, -7), Dec(-7227, -5), Dec(-6282, -5))}

\* distance_estimator is called on a field of the factory: the locals are set up and the
\* loop is about to begin.
DEInit ==
    /\ \E seed \in DESeedSet, t \in DETimeSet :
          de_field = create_fractal_from_seed(seed, t)
    /\ de_pos \in PosSet
    /\ de_st = DEStart(de_field, de_pos)
    /\ de_pc = "loop"
    /\ de_result = Zero
    /\ FacIdle /\ SdIdle /\ ColIdle /\ ResIdle /\ AuxIdle

\* One pass of the loop, of whichever variant the field is.
DEPassStep ==
    /\ de_pc = "loop"
    /\ LoopContinues(de_field, de_st)
    /\ de_st' = DEPass(de_field, de_pos, de_st)
    /\ UNCHANGED <<de_field, de_pos, de_pc, de_result, facVars, sdVars, colVars, resVars, auxVars>>

\* The loop is over: the result expression is evaluated and returned.
DEReturn ==
    /\ de_pc = "loop"
    /\ ~LoopContinues(de_field, de_st)
    /\ de_result' = DEResult(de_field, de_st)
    /\ de_pc' = "done"
    /\ UNCHANGED <<de_field, de_pos, de_st, facVars, sdVars, colVars, resVars, auxVars>>

DENext == DEPassStep \/ DEReturn

SpecDE == DEInit /\ [][DENext]_vars

(***************************************************************************)
(* get_color applied to sample arguments                                   *)
(***************************************************************************)
MaxColorSeed == 5

ColorSeedSet == {U32(n) : n \in 0..MaxColorSeed}

IterSet == {0, 4, 8}

DistSet == {Dec(-1, 0), Zero, Dec(1, -1), Dec(5, -1), Dec(3, 0)}

\* A field of the factory and a point; get_color is yet to be called.
ColorInit ==
    /\ \E seed \in ColorSeedSet, t \in DETimeSet :
          col_field = create_fractal_from_seed(seed, t)
    /\ col_pos \in PosSet
    /\ col_iter = 0
    /\ col_dist = Zero
    /\ col_rgb = Vec3(Zero, Zero, Zero)
    /\ col_pc = "idle"
    /\ FacIdle /\ SdIdle /\ DeIdle /\ ResIdle /\ AuxIdle

\* get_color with iterations_reached and a distance of the caller's choosing.
ColorOfDistance ==
    /\ col_pc = "idle"
    /\ \E n \in IterSet, d \in DistSet :
          /\ col_iter' = n
          /\ col_dist' = d
          /\ col_rgb' = get_color(col_field, n, d, col_pos)
    /\ col_pc' = "done"
    /\ UNCHANGED <<col_field, col_pos, facVars, sdVars, deVars, resVars, auxVars>>

\* get_color as extract_frequencies calls it: 8 iterations and the field's own estimate.
ColorOfEstimate ==
    /\ col_pc = "idle"
    /\ \E distance \in {distance_estimator(col_field, col_pos)} :
          /\ col_iter' = 8
          /\ col_dist' = distance
          /\ col_rgb' = get_color(col_field, 8, distance, col_pos)
    /\ col_pc' = "done"
    /\ UNCHANGED <<col_field, col_pos, facVars, sdVars, deVars, resVars, auxVars>>

ColorNext == ColorOfDistance \/ ColorOfEstimate

SpecColor == ColorInit /\ [][ColorNext]_vars

(***************************************************************************)
(* Resonant: the object the page drives                                    *)
(***************************************************************************)
MaxOps == 3

\* The dates the page is opened on.
OpenDates == {Date(2025, 1, 15), Date(2024, 12, 31)}

\* delta_time of a frame, in milliseconds
DeltaSet == {Zero, Dec(1000, 0)}

\* gesture_type, intensity, direction
GestureSet == {<<"swipe", One, One>>, <<"pinch", Dec(5, -1), Zero>>, <<"tilt", Two, Dec(-1, 0)>>,
               <<"smile", One, Zero>>, <<"shake", One, One>>}

\* Resonant::new on a browser whose storage holds the user id and nothing else.
Init ==
    /\ user_id \in UserIds
    /\ today \in OpenDates
    /\ current_seed = generate_daily_seed(user_id, today)
    /\ current_transform = Identity4
    /\ daily_interactions = 0
    /\ frozen_fractals = <<>>
    /\ storage = set_item(<<>>, <<"resonant_user_id", <<>>>>, user_id)
    /\ time = Zero
    /\ fractal_type = "Unknown"
    /\ uniforms = UnsetUniforms
    /\ engine = NewEngine
    /\ created = <<>>
    /\ last_frozen = NoSnapshot
    /\ ops = 0
    /\ FacIdle /\ SdIdle /\ DeIdle /\ ColIdle /\ AuxIdle

\* Resonant::render with setup_uniforms and update_audio
Render(delta_time) ==
    /\ ops < MaxOps
    /\ \E now \in {FAdd(time, FMul(delta_time, Dec(1, -3)))} :
        \E current_fractal \in {create_fractal_from_seed(current_seed, now)} :
          /\ time' = now
          /\ fractal_type' = get_name(current_fractal)
          /\ uniforms' = [u_time |-> now,
                          u_seed |-> U32AsI32(current_seed),
                          u_fractal_type |-> FractalId(get_name(current_fractal)),
                          u_transform |-> current_transform]
          /\ engine' = update_frequencies(engine,
                                          extract_frequencies(current_fractal, SamplePoints(now)))
          /\ created' = Append(created, [seed |-> current_seed, time |-> now,
                                         field |-> current_fractal])
    /\ ops' = ops + 1
    /\ UNCHANGED <<userVars, last_frozen, facVars, sdVars, deVars, colVars, auxVars>>

\* Resonant::apply_gesture with UserState::apply_transform and save_state; a gesture_type
\* the match does not know returns before anything is changed.
ApplyGesture(gesture_type, intensity, direction) ==
    /\ ops < MaxOps
    /\ IF gesture_type \in KnownGestures
       THEN \E transform \in {GestureTransform(gesture_type, intensity, direction)} :
            \E accumulated \in {MatMul(current_transform, transform)} :
               /\ current_transform' = accumulated
               /\ daily_interactions' = daily_interactions + 1
               /\ storage' = save_state(storage, current_seed, today, accumulated,
                                        daily_interactions + 1, frozen_fractals)
       ELSE UNCHANGED <<current_transform, daily_interactions, storage>>
    /\ ops' = ops + 1
    /\ UNCHANGED <<user_id, today, current_seed, frozen_fractals, time, fractal_type, uniforms,
                   engine, created, last_frozen, facVars, sdVars, deVars, colVars, auxVars>>

\* Resonant::freeze_fractal with UserState::freeze_current_fractal and save_state
FreezeFractal ==
    /\ ops < MaxOps
    /\ \E frozen \in {Snapshot(current_seed, fractal_type, current_transform,
                                daily_interactions)} :
        \E kept \in {PushFrozen(frozen_fractals, frozen)} :
          /\ frozen_fractals' = kept
          /\ last_frozen' = frozen
          /\ storage' = save_state(storage, current_seed, today, current_transform,
                                   daily_interactions, kept)
    /\ ops' = ops + 1
    /\ UNCHANGED <<user_id, today, current_seed, current_transform, daily_interactions, time,
                   fractal_type, uniforms, engine, created, facVars, sdVars, deVars, colVars,
                   auxVars>>

Next ==
    \/ \E delta_time \in DeltaSet : Render(delta_time)
    \/ \E g \in GestureSet : ApplyGesture(g[1], g[2], g[3])
    \/ FreezeFractal

Spec == Init /\ [][Next]_vars

(***************************************************************************)
(* FractalAudioAnalyzer::extract_frequencies called on lists of points     *)
(***************************************************************************)
MaxCalls == 2

\* Seeds of the three families, with loop caps of 8, 9 and 4.
AudioSeedSet == {U32(0), U32(1), U32(2), U32(13), U32(24), U32(5)}

\* Slices of sample points: empty, one point, the same points in two orders, a point
\* twice, and the four points update_audio samples at time 0.
PointLists ==
    {<<>>,
     <<Vec4(One, Zero, Zero, Zero)>>,
     <<Vec4(One, Zero, Zero, Zero), Vec4(Dec(3, -1), Dec(-4, -1), Dec(2, -1), Dec(-1, 0))>>,
     <<Vec4(Dec(3, -1), Dec(-4, -1), Dec(2, -1), Dec(-1, 0)), Vec4(One, Zero, Zero, Zero)>>,
     <<Origin, Vec4(Dec(-5, -1), Zero, Zero, Zero), Origin>>,
     SamplePoints(Zero)}

\* A field of the factory; extract_frequencies is yet to be called on it.
AudioInit ==
    /\ \E seed \in AudioSeedSet, t \in DETimeSet :
          aud_field = create_fractal_from_seed(seed, t)
    /\ aud_points = <<>>
    /\ aud_out = <<>>
    /\ aud_calls = <<>>
    /\ FacIdle /\ SdIdle /\ DeIdle /\ ColIdle /\ ResIdle /\ HarIdle /\ RsnIdle /\ FrzIdle
    /\ EngIdle /\ BatIdle

\* One call of extract_frequencies on the field, with a slice of the caller's choosing.
AudioExtract ==
    /\ Len(aud_calls) < MaxCalls
    /\ \E sample_points \in PointLists :
       \E frequencies \in {extract_frequencies(aud_field, sample_points)} :
          /\ aud_points' = sample_points
          /\ aud_out' = frequencies
          /\ aud_calls' = Append(aud_calls, [points |-> sample_points, out |-> frequencies])
    /\ UNCHANGED <<aud_field, facVars, sdVars, deVars, colVars, resVars, harVars, rsnVars,
                   frzVars, engVars, batVars>>

AudioNext == AudioExtract

SpecAudio == AudioInit /\ [][AudioNext]_vars

(***************************************************************************)
(* FractalAudioAnalyzer::create_harmonic_series                            *)
(***************************************************************************)
MaxHarmonics == 8

\* Fundamentals: the base frequency of the analyzer, tones around it, a fraction, a
\* negative value, zero and the values that are not finite.
FundamentalSet ==
    {Dec(220, 0), Dec(110, 0), Dec(440, 0), Dec(55, 0), Dec(275, -1), Dec(5, -1), Dec(15, -1),
     Dec(3, 0), Dec(1000, 0), Dec(-1, 0), Zero, NaN, PosInf}

\* The arguments of a call that is about to be made.
HarmonicsInit ==
    /\ har_fundamental \in FundamentalSet
    /\ har_count \in 0..MaxHarmonics
    /\ har_out = <<>>
    /\ har_pc = "called"
    /\ FacIdle /\ SdIdle /\ DeIdle /\ ColIdle /\ ResIdle /\ AudIdle /\ RsnIdle /\ FrzIdle
    /\ EngIdle /\ BatIdle

HarmonicsReturn ==
    /\ har_pc = "called"
    /\ har_out' = create_harmonic_series(har_fundamental, har_count)
    /\ har_pc' = "done"
    /\ UNCHANGED <<har_fundamental, har_count, facVars, sdVars, deVars, colVars, resVars,
                   audVars, rsnVars, frzVars,
                   engVars, batVars>>

HarmonicsNext == HarmonicsReturn

SpecHarmonics == HarmonicsInit /\ [][HarmonicsNext]_vars

(***************************************************************************)
(* UserState over a browser session: gestures, freezes and page reloads    *)
(***************************************************************************)
MaxGestures == 3

MaxFreezes == 12

\* gesture_type, intensity, direction: a zoom in and a zoom out, which raise and lower the
\* complexity score
SessionGestures == {<<"pinch", One, Zero>>, <<"pinch", Dec(-1, 0), Zero>>}

\* Gestures whose transforms are not symmetric matrices (two rotations and a
\* translation), and a zoom, whose transform is symmetric.
ReloadGestures == {<<"swipe", One, One>>, <<"tilt", Two, Dec(-1, 0)>>, <<"smile", One, Zero>>,
                   <<"pinch", One, Zero>>}

\* Resonant::new on a browser whose storage holds the user id and nothing else.
SessionInit ==
    /\ user_id = <<117>>
    /\ today = Date(2025, 1, 15)
    /\ storage = set_item(<<>>, <<"resonant_user_id", <<>>>>, user_id)
    /\ current_seed = generate_daily_seed(user_id, today)
    /\ current_transform = load_transform(storage, current_seed)
    /\ daily_interactions = load_daily_interactions(storage, today)
    /\ frozen_fractals = load_frozen_fractals(storage)
    /\ time = Zero
    /\ fractal_type = "Unknown"
    /\ uniforms = UnsetUniforms
    /\ engine = NewEngine
    /\ created = <<>>
    /\ last_frozen = NoSnapshot
    /\ ops = 0
    /\ frz_all = <<>>
    /\ FacIdle /\ SdIdle /\ DeIdle /\ ColIdle /\ AudIdle /\ HarIdle /\ RsnIdle
    /\ EngIdle /\ BatIdle

\* Resonant::apply_gesture with UserState::apply_transform and save_state
SessionGesture(gesture_type, intensity, direction) ==
    /\ daily_interactions < MaxGestures
    /\ gesture_type \in KnownGestures
    /\ \E transform \in {GestureTransform(gesture_type, intensity, direction)} :
       \E accumulated \in {MatMul(current_transform, transform)} :
          /\ current_transform' = accumulated
          /\ daily_interactions' = daily_interactions + 1
          /\ storage' = save_state(storage, current_seed, today, accumulated,
                                   daily_interactions + 1, frozen_fractals)
    /\ UNCHANGED <<user_id, today, current_seed, frozen_fractals, time, fractal_type, uniforms,
                   engine, created, last_frozen, ops, facVars, sdVars, deVars, colVars,
                   audVars, harVars, rsnVars, frzVars, engVars, batVars>>

\* Resonant::freeze_fractal with UserState::freeze_current_fractal and save_state
SessionFreeze ==
    /\ Len(frz_all) < MaxFreezes
    /\ \E frozen \in {Snapshot(current_seed, fractal_type, current_transform,
                                daily_interactions)} :
        \E kept \in {PushFrozen(frozen_fractals, frozen)} :
          /\ frozen_fractals' = kept
          /\ last_frozen' = frozen
          /\ frz_all' = Append(frz_all, frozen)
          /\ storage' = save_state(storage, current_seed, today, current_transform,
                                   daily_interactions, kept)
    /\ UNCHANGED <<user_id, today, current_seed, current_transform, daily_interactions, time,
                   fractal_type, uniforms, engine, created, ops, facVars, sdVars, deVars,
                   colVars, audVars, harVars, rsnVars, engVars, batVars>>

\* The page is loaded again on the same day: UserState::new reads the storage.
SessionReopen ==
    /\ current_transform' = load_transform(storage, current_seed)
    /\ daily_interactions' = load_daily_interactions(storage, today)
    /\ frozen_fractals' = load_frozen_fractals(storage)
    /\ UNCHANGED <<user_id, today, current_seed, storage, time, fractal_type, uniforms, engine,
                   created, last_frozen, ops, facVars, sdVars, deVars, colVars, auxVars>>

\* A day of zooming and freezing
SessionNext ==
    \/ \E g \in SessionGestures : SessionGesture(g[1], g[2], g[3])
    \/ SessionFreeze

SpecSession == SessionInit /\ [][SessionNext]_vars

\* A day of gestures with the page loaded again in between
ReloadNext ==
    \/ \E g \in ReloadGestures : SessionGesture(g[1], g[2], g[3])
    \/ SessionReopen

SpecReload == SessionInit /\ [][ReloadNext]_vars

(***************************************************************************)
(* UserState::calculate_resonance on two snapshot records                  *)
(***************************************************************************)
\* Seeds: small ones, one a thousand away, and the two largest, which are the same f32.
ResonanceSeeds == {U32(0), U32(1), U32(1000), <<Limb - 1, Limb - 2>>, U32Max}

\* The matrix with the diagonal a, b, 0, 0 and zeros elsewhere.
Diagonal(a, b) ==
    MatFromRows(<<<<a, Zero, Zero, Zero>>,
                  <<Zero, b, Zero, Zero>>,
                  <<Zero, Zero, Zero, Zero>>,
                  <<Zero, Zero, Zero, Zero>>>>)

\* Flattened transforms of a record: those of gestures, and those an opponent's record
\* can hold, with the traces 1e-9, 2e-9, 3e38, -3e38 and one that overflows.
ResonanceTransforms ==
    {Identity4, Scaling(Dec(12, -1)), RotationZ(Dec(1, -1)), Translation(Zero, Zero, Dec(1, -1)),
     Diagonal(Dec(1, -9), Zero), Diagonal(Dec(2, -9), Zero), Diagonal(Dec(3, 38), Zero),
     Diagonal(Dec(-3, 38), Zero), Diagonal(Dec(3, 38), Dec(3, 38))}

\* A record as battle_against_fractal parses it from the opponent's JSON.
Record(seed, transform_matrix) ==
    [seed |-> seed, fractal_type |-> "Unknown", transform_matrix |-> transform_matrix,
     complexity_score |-> Zero, interaction_count |-> 0]

\* The two records of a call that is about to be made.
ResonanceInit ==
    /\ \E seed \in ResonanceSeeds, m \in ResonanceTransforms : rsn_a = Record(seed, m)
    /\ \E seed \in ResonanceSeeds, m \in ResonanceTransforms : rsn_b = Record(seed, m)
    /\ rsn_score = Zero
    /\ rsn_pc = "called"
    /\ FacIdle /\ SdIdle /\ DeIdle /\ ColIdle /\ ResIdle /\ AudIdle /\ HarIdle /\ FrzIdle
    /\ EngIdle /\ BatIdle

ResonanceReturn ==
    /\ rsn_pc = "called"
    /\ rsn_score' = calculate_resonance(rsn_a, rsn_b)
    /\ rsn_pc' = "done"
    /\ UNCHANGED <<rsn_a, rsn_b, facVars, sdVars, deVars, colVars, resVars, audVars, harVars,
                   frzVars, engVars, batVars>>

ResonanceNext == ResonanceReturn

SpecResonance == ResonanceInit /\ [][ResonanceNext]_vars

(***************************************************************************)
(* AudioEngine::update_frequencies called on lists of frequencies          *)
(***************************************************************************)
\* Frequencies a caller hands over: three within 6 Hz of each other, one far away, and
\* the NaN and the infinity extract_frequencies can return.
FrequencySet == {Dec(220, 0), Dec(225, 0), Dec(226, 0), Dec(440, 0), NaN, PosInf}

\* The lists of at most two of them.
FrequencyLists ==
    {<<>>} \cup {<<a>> : a \in FrequencySet} \cup {<<a, b>> : a \in FrequencySet, b \in FrequencySet}

\* AudioEngine::new
EngineInit ==
    /\ FacIdle /\ SdIdle /\ DeIdle /\ ColIdle /\ ResIdle /\ AuxIdle

\* A call of update_frequencies.
EngineUpdate(frequencies) ==
    /\ eng_arg' = frequencies
    /\ eng_prev' = engine
    /\ eng_called' = TRUE
    /\ eng_started' = (eng_started \/ frequencies_changed(engine.current_frequencies, frequencies))
    /\ engine' = update_frequencies(engine, frequencies)
    /\ UNCHANGED <<userVars, time, fractal_type, uniforms, created, last_frozen, ops, facVars,
                   sdVars, deVars, colVars, audVars, harVars, rsnVars, frzVars, batVars>>

EngineNext == \E frequencies \in FrequencyLists : EngineUpdate(frequencies)

SpecEngine == EngineInit /\ [][EngineNext]_vars

(***************************************************************************)
(* Battles of the current fractal against records of other users           *)
(***************************************************************************)
\* gesture_type, intensity, direction: a brightness change, which leaves the determinant
\* at 1, and a zoom
BattleGestures == {<<"smile", One, Zero>>, <<"pinch", One, Zero>>}

\* A snapshot another user has frozen, as its JSON text describes it.
Opponent(seed, transform_matrix, complexity_score) ==
    [seed |-> seed,
     fractal_type |-> get_name(create_fractal_from_seed(seed, Zero)),
     transform_matrix |-> transform_matrix,
     complexity_score |-> complexity_score,
     interaction_count |-> 0]

\* Complexity scores of an opponent: those of a user after no, one and two brightness
\* changes, values just below the first two, and a high score.
OpponentScores ==
    {Zero, Dec(-1, -9), Dec(1, -1), Dec(9999, -5), FMul(FSqrt(Two), Dec(1, -1)), Dec(5, 0)}

\* The opponents of a user whose seed is seed: of the same seed and of another, with a
\* transform of the same trace as the identity, of another, and of an overflowing one.
Opponents(seed) ==
    {Opponent(s, m, c) : s \in {seed, U32(0)},
                         m \in {Identity4, Scaling(Two), Diagonal(Dec(3, 38), Dec(3, 38))},
                         c \in OpponentScores}

\* The fields of UserState a battle could change.
UserFields == <<current_seed, current_transform, daily_interactions, frozen_fractals>>

\* Resonant::battle_fractals with UserState::battle_against_fractal
Battle(opponent) ==
    /\ ops < MaxOps
    /\ bat' = [called |-> TRUE,
               op |-> ops + 1,
               before |-> UserFields,
               current |-> Snapshot(current_seed, "Current", current_transform,
                                    daily_interactions),
               opponent |-> opponent,
               result |-> battle_against_fractal(current_seed, current_transform,
                                                 daily_interactions, opponent)]
    /\ ops' = ops + 1
    /\ UNCHANGED <<userVars, time, fractal_type, uniforms, engine, created, last_frozen,
                   facVars, sdVars, deVars, colVars, audVars, harVars, rsnVars, frzVars,
                   engVars>>

BattleNext ==
    \/ \E g \in BattleGestures : ApplyGesture(g[1], g[2], g[3])
    \/ \E opponent \in Opponents(current_seed) : Battle(opponent)

SpecBattle == SessionInit /\ [][BattleNext]_vars

(***************************************************************************)
(* Claims                                                                  *)
(***************************************************************************)
FamilyOfRemainder(r) ==
    CASE r = 0 -> "Mandelbulb" [] r = 1 -> "Julia4D" [] r = 2 -> "KaleidoIFS"

\* seed mod 3 from the limbs: 2^16 = 1 (mod 3).
SeedMod3(seed) == (seed[1] + seed[2]) % 3

\* C1: the factory returns the variant selected by seed mod 3 (0 Mandelbulb, 1 Julia4D,
\* 2 KaleidoIFS), for every seed and time; seeds 0..5 give the three families twice over.
C1_FamilyBySeedMod3 ==
    fac_field # NoField =>
        /\ fac_field.name = FamilyOfRemainder(SeedMod3(fac_seed))
        /\ fac_seed = U32(0) => fac_field.name = "Mandelbulb"
        /\ fac_seed = U32(1) => fac_field.name = "Julia4D"
        /\ fac_seed = U32(2) => fac_field.name = "KaleidoIFS"
        /\ fac_seed = U32(3) => fac_field.name = "Mandelbulb"
        /\ fac_seed = U32(4) => fac_field.name = "Julia4D"
        /\ fac_seed = U32(5) => fac_field.name = "KaleidoIFS"

C1_Witness == fac_seed = U32Max /\ fac_time # Zero /\ fac_field.name = "Mandelbulb"

\* C10: the factory's integer parameters are positive and at most 16: Mandelbulb
\* iterations in 8..11, Julia4D iterations in 8..13, KaleidoIFS fold_count in 4..11.
C10_LoopCapsBounded ==
    fac_field # NoField =>
        /\ fac_field.name = "Mandelbulb" => fac_field.iterations \in 8..11
        /\ fac_field.name = "Julia4D" => fac_field.iterations \in 8..13
        /\ fac_field.name = "KaleidoIFS" => fac_field.fold_count \in 4..11
        /\ LoopCap(fac_field) > 0
        /\ LoopCap(fac_field) <= 16

C10_Witness == fac_field.name = "KaleidoIFS" /\ fac_field.fold_count = 11

\* C6 (as claimed): every daily seed is the rolling hash of the user id followed by the
\* digits of year*10000 + month*100 + day with the calendar month, January = 1.
C6_HashOfOneBasedDate ==
    \A e \in sd_log :
        e.seed = HashBytes(U32(0), sd_user \o DecimalDigits(e.date.year * 10000
                                                             + e.date.month * 100 + e.date.day))

\* C6, what the code computes: the month in the day code is get_month(), January = 0.
C6_HashOfZeroBasedDate ==
    \A e \in sd_log :
        e.seed = HashBytes(U32(0), sd_user \o DecimalDigits(e.date.year * 10000
                                                             + (e.date.month - 1) * 100 + e.date.day))

\* C7 (as claimed): one seed per date, and different dates never share a seed.
C7_DistinctDatesDistinctSeeds ==
    \A a, b \in sd_log :
        /\ a.date = b.date => a.seed = b.seed
        /\ a.date # b.date => a.seed # b.seed

SameCentury(d1, d2) ==
    d1.year >= 1000 /\ d2.year >= 1000 /\ d1.year \div 100 = d2.year \div 100

\* C7 (amended): one seed per date, and different dates of the same century (years
\* 1000..9999 with equal year div 100) never share a seed.
C7_SameCenturyDistinctSeeds ==
    \A a, b \in sd_log :
        /\ a.date = b.date => a.seed = b.seed
        /\ (a.date # b.date /\ SameCentury(a.date, b.date)) => a.seed # b.seed

C7_Witness ==
    \E a, b \in sd_log :
        /\ a.date # b.date
        /\ a.date.year = b.date.year
        /\ a.date.month = b.date.month
        /\ a.seed # b.seed
        /\ sd_seed = a.seed

FamilyNames == {"Mandelbulb", "Julia4D", "KaleidoIFS"}

\* The parameters of a field other than time.
WithoutTime(fractal) == [fractal EXCEPT !.time = Zero]

\* C2: create_fractal_from_seed depends on nothing but its arguments: whatever renders,
\* gestures and freezes lie between two calls, the same (seed, time) gives the same field,
\* and two calls with the same seed differ in nothing but the time they carry.
C2_FactoryDeterministic ==
    \A i, j \in 1..Len(created) :
        /\ (created[i].seed = created[j].seed /\ created[i].time = created[j].time)
              => created[i].field = created[j].field
        /\ created[i].seed = created[j].seed
              => WithoutTime(created[i].field) = WithoutTime(created[j].field)

C2_Witness ==
    /\ Len(created) = 2
    /\ created[1].time # created[2].time
    /\ created[1].seed = created[2].seed
    /\ daily_interactions + Len(frozen_fractals) = 1

\* C3: the loop of distance_estimator begins at most `iterations` passes (Mandelbulb,
\* Julia4D) or exactly `fold_count` passes (KaleidoIFS) and then returns; Mandelbulb and
\* Julia4D leave it early only with the iterate's norm above 2.0 and 4.0 respectively.
C3_LoopBounded ==
    /\ de_st.i <= LoopCap(de_field)
    /\ de_pc = "done" => (de_st.i = LoopCap(de_field) \/ de_st.broke)
    /\ de_field.name = "KaleidoIFS" => ~de_st.broke
    /\ (de_field.name = "KaleidoIFS" /\ de_pc = "done") => de_st.i = de_field.fold_count
    /\ (de_field.name = "Mandelbulb" /\ de_st.broke) => FGt(V3Norm(de_st.z), Dec(2, 0))
    /\ (de_field.name = "Julia4D" /\ de_st.broke) => FGt(V4Norm(de_st.z), Dec(4, 0))

C3_Witness ==
    /\ de_pc = "done"
    /\ de_field.name = "Julia4D"
    /\ de_st.broke
    /\ 1 < de_st.i
    /\ de_st.i < de_field.iterations

\* C4: Mandelbulb::distance_estimator returns a finite value, not NaN, for a point with
\* x = y = z = 0, where the norm of the iterate is 0 at the first pass.
C4_ZeroNormGuarded ==
    (de_pc = "done" /\ de_field.name = "Mandelbulb" /\ Xyz(de_pos) = Vec3(Zero, Zero, Zero))
        => IsFinite(de_result)

InUnitRange(x) == FGe(x, Zero) /\ FLe(x, One)

\* C5: get_color returns each of the three channels in [0, 1], for every variant, every
\* iterations_reached, every finite distance and every finite pos.
C5_ChannelsInUnitRange ==
    (col_pc = "done" /\ IsFinite(col_dist))
        => \A k \in 1..3 : InUnitRange(col_rgb[k])

\* C8: get_name is one of the three family names; the id setup_uniforms uploads for the
\* field the factory built is seed mod 3, never the fallback; encode_fractal_for_url maps
\* the names to the same ids 0, 1, 2.
C8_FamilyIdIsSeedMod3 ==
    /\ \A i \in 1..Len(created) : get_name(created[i].field) \in FamilyNames
    /\ created # <<>> =>
          /\ fractal_type \in FamilyNames
          /\ uniforms.u_fractal_type = SeedMod3(current_seed)
    /\ \A s \in ColorSeedSet \cup BigSeeds :
          \A name \in {get_name(create_fractal_from_seed(s, time))} :
             name \in FamilyNames /\ FractalId(name) = SeedMod3(s)
    /\ FractalId("Mandelbulb") = 0 /\ FractalId("Julia4D") = 1 /\ FractalId("KaleidoIFS") = 2
    /\ \A name \in FamilyNames : EncodedFractalType(name) = FractalId(name)

C8_Witness ==
    /\ created # <<>>
    /\ fractal_type = "KaleidoIFS"
    /\ uniforms.u_fractal_type = 2
    /\ daily_interactions > 0

\* C9: the loop of the shader function that the family id selects has the same cap as the
\* `iterations` / `fold_count` of the host field built for the seed.
C9_ShaderCapEqualsHostCap ==
    fac_field # NoField => ShaderLoopCap(FractalId(get_name(fac_field))) = LoopCap(fac_field)

\* C11 (as claimed): for seed 123456 and time 0.0 the factory yields Julia4D with
\* iterations = 8 + (123456 / 13) mod 6.
C11_Seed123456IsJulia4D ==
    (fac_seed = U32(123456) /\ fac_time = Zero /\ fac_field # NoField)
        => /\ fac_field.name = "Julia4D"
           /\ fac_field.iterations = 8 + ((123456 \div 13) % 6)

\* C11 (amended): 123456 mod 3 = 0, so for seed 123456 and time 0.0 the factory yields
\* Mandelbulb, with power = 6.0 + (123456 / 3) mod 8 = 6.0 and iterations =
\* 8 + (123456 / 24) mod 4 = 8.
C11_Seed123456IsMandelbulb ==
    (fac_seed = U32(123456) /\ fac_time = Zero /\ fac_field # NoField)
        => /\ fac_field.name = "Mandelbulb"
           /\ fac_field.power = FromInt(6 + ((123456 \div 3) % 8))
           /\ fac_field.power = Dec(6, 0)
           /\ fac_field.iterations = 8 + ((123456 \div 24) % 4)
           /\ fac_field.iterations = 8
           /\ fac_field.time = Zero

C11_Witness ==
    fac_seed = U32(123456) /\ fac_time = Zero /\ fac_field # NoField /\ fac_field.iterations = 8

\* C12: extract_frequencies returns one frequency per point, in the order of the points
\* (no points, no frequencies); the i-th frequency is a function of the field and the i-th
\* point alone, whatever the other points and whatever calls came before, and it is
\* 220.0 * (1.0 + distance * 0.5) * (1.0 + red * 0.3) with the red channel of
\* get_color(8, distance, point), 8 being a constant and not the field's loop cap.
C12_OneFrequencyPerPoint ==
    /\ Len(aud_out) = Len(aud_points)
    /\ \A c \in 1..Len(aud_calls) :
          /\ Len(aud_calls[c].out) = Len(aud_calls[c].points)
          /\ aud_calls[c].points = <<>> => aud_calls[c].out = <<>>
          /\ \A i \in 1..Len(aud_calls[c].points) :
                \A distance \in {distance_estimator(aud_field, aud_calls[c].points[i])} :
                   aud_calls[c].out[i] =
                      FMul(FMul(Dec(220, 0), FAdd(One, FMul(distance, Dec(5, -1)))),
                           FAdd(One, FMul(get_color(aud_field, 8, distance,
                                                    aud_calls[c].points[i])[1],
                                          Dec(3, -1))))
    /\ \A c, d \in 1..Len(aud_calls) :
          \A i \in 1..Len(aud_calls[c].points), j \in 1..Len(aud_calls[d].points) :
             aud_calls[c].points[i] = aud_calls[d].points[j]
                => aud_calls[c].out[i] = aud_calls[d].out[j]

C12_Witness ==
    /\ Len(aud_calls) = 2
    /\ Len(aud_calls[1].points) = 2
    /\ Len(aud_calls[2].points) = 2
    /\ aud_calls[1].points # aud_calls[2].points
    /\ aud_calls[1].out[1] = aud_calls[2].out[2]
    /\ aud_calls[1].out[1] # aud_calls[1].out[2]
    /\ LoopCap(aud_field) # 8

\* C13: every frequency extract_frequencies returns is at least 220.0 * 0.5 = 110.0.
C13_FrequenciesAtLeast110 ==
    \A i \in 1..Len(aud_out) : FGe(aud_out[i], Dec(110, 0))


\* C14: create_harmonic_series(fundamental, harmonics) returns exactly `harmonics`
\* elements, the k-th (k = 1..harmonics) being fundamental * k; harmonics = 0 gives the
\* empty sequence and (220.0, 4) gives [220.0, 440.0, 660.0, 880.0].
C14_HarmonicSeries ==
    har_pc = "done" =>
        /\ Len(har_out) = har_count
        /\ (har_count = 0 => har_out = <<>>)
        /\ \A k \in 1..har_count :
              /\ har_out[k] = FMul(har_fundamental, FromInt(k))
              /\ IsFinite(har_fundamental) =>
                    har_out[k] = Dec(har_fundamental[1] * k, har_fundamental[2])
        /\ (har_fundamental = Dec(220, 0) /\ har_count = 4 =>
               har_out = <<Dec(220, 0), Dec(440, 0), Dec(660, 0), Dec(880, 0)>>)

C14_Witness ==
    /\ har_pc = "done"
    /\ har_fundamental = Dec(220, 0)
    /\ har_count = 4
    /\ har_out[4] = Dec(880, 0)


\* The number of places of a sequence that hold x.
Occurrences(seq, x) == Cardinality({i \in 1..Len(seq) : seq[i] = x})

\* C15: after any sequence of freezes the history holds at most 10 snapshots, is ordered
\* by complexity_score descending, retains the highest-scoring snapshots frozen so far
\* (each snapshot that scores above the lowest one kept is kept, as often as it was
\* frozen), and get_best_frozen_fractal returns a snapshot of maximal score, None only
\* when the history is empty.
C15_HistoryBoundedAndBest ==
    /\ Len(frozen_fractals) <= 10
    /\ Len(frozen_fractals) = IF Len(frz_all) < 10 THEN Len(frz_all) ELSE 10
    /\ \A i \in 1..Len(frozen_fractals) : \A j \in i..Len(frozen_fractals) :
          FGe(frozen_fractals[i].complexity_score, frozen_fractals[j].complexity_score)
    /\ \A k \in 1..Len(frozen_fractals) :
          Occurrences(frozen_fractals, frozen_fractals[k])
              <= Occurrences(frz_all, frozen_fractals[k])
    /\ \A j \in 1..Len(frz_all) :
          FGt(frz_all[j].complexity_score,
              frozen_fractals[Len(frozen_fractals)].complexity_score)
              => Occurrences(frozen_fractals, frz_all[j]) = Occurrences(frz_all, frz_all[j])
    /\ (get_best_frozen_fractal(frozen_fractals) = NoSnapshot) = (frz_all = <<>>)
    /\ \A j \in 1..Len(frz_all) :
          FGe(get_best_frozen_fractal(frozen_fractals).complexity_score,
              frz_all[j].complexity_score)

\* Twelve freezes: the history is full, its best snapshot was not the first one frozen,
\* and the last one frozen was dropped at once.
C15_Witness ==
    /\ Len(frz_all) = 12
    /\ Len(frozen_fractals) = 10
    /\ FGt(frozen_fractals[1].complexity_score, frozen_fractals[10].complexity_score)
    /\ FLt(frz_all[1].complexity_score, frozen_fractals[1].complexity_score)
    /\ FLt(frz_all[12].complexity_score, frozen_fractals[10].complexity_score)
    /\ Occurrences(frozen_fractals, frz_all[12]) = 0


\* C16: the transform that save_state wrote for the current seed is restored by
\* load_transform exactly: save followed by load is the identity on the transform.
C16_SaveThenLoadIsIdentity ==
    <<"resonant_transform", current_seed>> \in DOMAIN storage
        => load_transform(storage, current_seed) = current_transform


InHalfOpenUnit(x) == FGt(x, Zero) /\ FLe(x, One)

TraceOf(fractal) == trace(from_row_slice(fractal.transform_matrix))

\* C17, as claimed: both terms and the resonance lie in (0, 1], and the resonance is 1
\* exactly when the two transforms have equal trace and the two seeds are equal.
C17_ResonanceOneIffEqual ==
    rsn_pc = "done" =>
        /\ InHalfOpenUnit(trace_similarity(rsn_a, rsn_b))
        /\ InHalfOpenUnit(seed_harmony(rsn_a, rsn_b))
        /\ InHalfOpenUnit(rsn_score)
        /\ (rsn_score = One) = (TraceOf(rsn_a) = TraceOf(rsn_b) /\ rsn_a.seed = rsn_b.seed)

\* C17, amended: the seed term always lies in (0, 1]; when the difference of the traces is
\* finite, so do the trace term and the resonance; the resonance is 1 when the traces are
\* equal and finite and the seeds are equal, and it is 1 exactly when both terms are 1,
\* which is when 1 + |trace_a - trace_b| rounds to 1 and the seeds are the same f32.
C17_ResonanceInUnitRange ==
    rsn_pc = "done" =>
        \A trace_diff \in {FAbs(FSub(TraceOf(rsn_a), TraceOf(rsn_b)))} :
            /\ rsn_score = FMul(FAdd(trace_similarity(rsn_a, rsn_b), seed_harmony(rsn_a, rsn_b)),
                                Dec(5, -1))
            /\ InHalfOpenUnit(seed_harmony(rsn_a, rsn_b))
            /\ IsFinite(trace_diff) =>
                  /\ InHalfOpenUnit(trace_similarity(rsn_a, rsn_b))
                  /\ InHalfOpenUnit(rsn_score)
            /\ trace_diff = PosInf =>
                  /\ trace_similarity(rsn_a, rsn_b) = Zero
                  /\ FGt(rsn_score, Zero) /\ FLe(rsn_score, Dec(5, -1))
            /\ IsNaN(trace_diff) => IsNaN(rsn_score)
            /\ (trace_diff = Zero /\ rsn_a.seed = rsn_b.seed) => rsn_score = One
            /\ (rsn_score = One) = (/\ FAdd(One, trace_diff) = One
                                    /\ U32ToF32(rsn_a.seed) = U32ToF32(rsn_b.seed))

\* Two records with different seeds and different traces whose resonance is 1.
C17_Witness ==
    /\ rsn_pc = "done"
    /\ rsn_a.seed = U32Max
    /\ rsn_b.seed = <<Limb - 1, Limb - 2>>
    /\ TraceOf(rsn_a) # TraceOf(rsn_b)
    /\ rsn_score = One


\* C18: in get_color of every variant the hue handed to hsv_to_rgb is wrapped into
\* [0, 1): 0 <= hue < 1 for every input, negative sums of the hue terms included.
C18_HueWrappedIntoUnit ==
    col_pc = "done" =>
        \A hue \in {ColorHsv(col_field, col_iter, col_dist, col_pos)[1]} :
            FGe(hue, Zero) /\ FLt(hue, One)


\* C19: Julia4D::distance_estimator never divides by |dz| = 0 and never takes the
\* logarithm of |z| = 0 in its result expression, and returns a finite value.
C19_JuliaZeroCasesGuarded ==
    (de_pc = "done" /\ de_field.name = "Julia4D")
        => /\ V4Norm(de_st.dz) # Zero
           /\ V4Norm(de_st.z) # Zero
           /\ (V4Norm(de_st.dz) = Zero \/ V4Norm(de_st.z) = Zero) => IsFinite(de_result)


\* p.norm_squared() as the sphere fold of the pass about to run will see it.
PendingR2 ==
    Only({ V3Dot(p, p)
           : p \in {BoxFoldMap(KaleidoscopicFold(de_st.p, FoldNormal(de_field, de_st.i)))} })

\* The sphere fold divides by r2 (its second branch is the one taken).
DividesByR2(r2) == ~FLt(r2, Dec(25, -2)) /\ FLt(r2, One)

NamesItsFamily(frozen) ==
    /\ frozen.fractal_type \in FamilyNames
    /\ frozen.fractal_type = get_name(create_fractal_from_seed(frozen.seed, Zero))

\* C21: every snapshot freeze_fractal has produced, the last one and those kept in the
\* history, carries one of the three family names, the one of the family the factory
\* selects for the snapshot's seed, also when no render came before the freeze.
C21_SnapshotNamesFamily ==
    /\ last_frozen # NoSnapshot => NamesItsFamily(last_frozen)
    /\ \A k \in 1..Len(frozen_fractals) : NamesItsFamily(frozen_fractals[k])


\* The lengths differ, or some element of new is more than 5 Hz away from that of old.
DiffersByMoreThan5(old, new) ==
    \/ Len(old) # Len(new)
    \/ \E i \in 1..Len(old) : FGt(FAbs(FSub(old[i], new[i])), Dec(5, 0))

\* a and b are the same value or at most 5 Hz apart.
Within5Hz(a, b) == a = b \/ FLe(FAbs(FSub(a, b)), Dec(5, 0))

\* The most recent call replaced the list and restarted the oscillators exactly when the
\* argument differed, and left the engine alone otherwise.
C22_ReplacedExactlyWhenDiffers ==
    eng_called
        => IF DiffersByMoreThan5(eng_prev.current_frequencies, eng_arg)
           THEN /\ engine.current_frequencies = eng_arg
                /\ Len(engine.oscillators) = Len(eng_arg)
                /\ engine.is_playing
           ELSE engine = eng_prev

\* The stored list has the length of the most recent argument and is within 5 Hz of it,
\* element by element.
C22_StoredTracksArgument ==
    eng_called
        => /\ Len(engine.current_frequencies) = Len(eng_arg)
           /\ \A i \in 1..Len(eng_arg) : Within5Hz(engine.current_frequencies[i], eng_arg[i])

\* is_playing is false until a call has replaced the list.
C22_SilentUntilReplaced == ~eng_started => ~engine.is_playing

\* C22: update_frequencies replaces the stored list and restarts the oscillators exactly
\* when the argument has another length or an element more than 5 Hz away, and changes
\* nothing otherwise; so the stored list has the length of the most recent argument and is
\* within 5 Hz of it element by element, and is_playing is false until a call has replaced
\* the list.
C22_UpdateOnlyOnChange ==
    /\ C22_ReplacedExactlyWhenDiffers
    /\ C22_StoredTracksArgument
    /\ C22_SilentUntilReplaced


\* The current fractal is the winner of the battle bat records.
CurrentWins == bat.result.winner = bat.current

\* The battle bat records left seed, transform, interaction count and history alone; said
\* of the state the battle ended in.
BattleLeftUserAlone == (bat.called /\ bat.op = ops) => UserFields = bat.before

\* calculate_resonance is symmetric, both scores are the complexity plus the same
\* resonance, and the winner is one of the two.
BattleScores ==
    bat.called
        => /\ calculate_resonance(bat.current, bat.opponent)
                = calculate_resonance(bat.opponent, bat.current)
           /\ bat.result.resonance_factor = calculate_resonance(bat.current, bat.opponent)
           /\ bat.result.score_self
                = FAdd(bat.current.complexity_score, bat.result.resonance_factor)
           /\ bat.result.score_opponent
                = FAdd(bat.opponent.complexity_score, bat.result.resonance_factor)
           /\ bat.result.winner \in {bat.current, bat.opponent}

\* C23 as stated: the resonance is symmetric and the same in both scores, the current
\* fractal wins exactly when its complexity_score is strictly greater than the
\* opponent's (a tie makes the opponent the winner), resonance_factor is score_self minus
\* the current complexity, and the battle changes none of the user state.
C23_WinnerByComplexityAlone ==
    /\ BattleScores
    /\ bat.called
          => /\ CurrentWins
                  = FGt(bat.current.complexity_score, bat.opponent.complexity_score)
             /\ bat.result.resonance_factor
                  = FSub(bat.result.score_self, bat.current.complexity_score)
    /\ BattleLeftUserAlone

\* C23, amended: the resonance is symmetric and the same in both scores, the current
\* fractal wins exactly when score_self is greater than score_opponent, which it can be
\* only when its complexity_score is strictly greater than the opponent's (a tie, and a
\* lead the addition of the resonance rounds away, make the opponent the winner),
\* score_self is the current complexity plus resonance_factor, and the battle changes none
\* of the user state.
C23_WinnerByScore ==
    /\ BattleScores
    /\ bat.called
          => /\ CurrentWins = FGt(bat.result.score_self, bat.result.score_opponent)
             /\ CurrentWins
                  => FGt(bat.current.complexity_score, bat.opponent.complexity_score)
             /\ FLe(bat.current.complexity_score, bat.opponent.complexity_score)
                  => bat.result.winner = bat.opponent
    /\ BattleLeftUserAlone

\* A battle the current fractal loses on equal scores although its complexity is the
\* greater one, after a gesture.
C23_Witness ==
    /\ bat.called
    /\ bat.op = ops
    /\ 0 < daily_interactions
    /\ FGt(bat.current.complexity_score, bat.opponent.complexity_score)
    /\ bat.result.score_self = bat.result.score_opponent
    /\ bat.result.winner = bat.opponent

=============================================================================
